---- MODULE Spec2Model ----
(***************************************************************************)
(* Connection lifecycle and transaction engine of the serial layer         *)
(* (src/src/serial/base.rs).                                               *)
(*                                                                         *)
(* A SerialPortManager ("Channel") owns                                    *)
(*   port          Mutex<Option<SerialStream>>   (the handle and its lock) *)
(*   is_connected  AtomicBool                    (lock-free status flag)   *)
(*   cancel_token  CancellationToken                                       *)
(*   data_sender   bounded mpsc queue to the data processing task          *)
(* Callers run open / close / cancel_tasks / send / send_modbus_command /  *)
(* is_open concurrently on a multi-threaded runtime; the receive task and  *)
(* the data processing task run in the background in auto-receive mode.    *)
(*                                                                         *)
(* In this program open(), close() and cancel_tasks() are only called by the *)
(* registry (src/src/serial/manager.rs): open_all, close_all and           *)
(* remove_port each hold the lock of the `ports` map while the call runs,  *)
(* so these three never overlap one another; send, send_modbus_command and *)
(* is_open are called on an Arc obtained from get_port, with no lock held. *)
(*                                                                         *)
(* Granularity: one step per access to state another task can see.  The    *)
(* handle is only touched under the port lock, the flag is an atomic that  *)
(* is read without the lock, so a store to the flag is a step of its own   *)
(* whenever the handle was changed before it under the same guard (open,   *)
(* close, the receive task's disconnect branches).  Every .await on I/O,   *)
(* on the lock or on a timer separates two steps.                          *)
(*                                                                         *)
(* The second half of the module is the registry itself                    *)
(* (src/src/serial/manager.rs): the map of Channels and its operations     *)
(* (MapSpec), the monitoring task with its discovery cycle (RegSpec), and  *)
(* the event subscriptions (EvSpec).  BornSpec is a Channel made after the *)
(* root token was cancelled, SendSpec the registry's open_all and sends.   *)
(* Then comes the Modbus RTU codec (src/src/serial/modbus.rs, CodecSpec):  *)
(* to_bytes and from_bytes with the CRC computed as the `crc` crate does.  *)
(*                                                                         *)
(* Four smaller specifications look at one mechanism each: LoopSpec is the *)
(* monitoring task left alone with opened Channels whose receive tasks     *)
(* lose their handles (with weak fairness of the monitoring task, which    *)
(* is a spawned task that runs whenever it can); WireSpec is the byte      *)
(* stream of one serial line under successive send_modbus_command calls;   *)
(* LockSpec is every operation reduced to the Mutexes it takes and drops;  *)
(* EmitSpec is emit_event sender by sender with two emitters.              *)
(***************************************************************************)
EXTENDS Naturals, FiniteSets, Sequences, TLC

\* ------------------------------------------------------------------ bounds
\* The largest number of bytes one port.read() delivers in the model.
MaxRead == 4
\* The largest response a transaction accumulates in the model.
MaxAcc == 6
\* Capacity of the bounded mpsc queue between the two background tasks.
QCap == 1
\* The largest number of event subscriptions created in the model.
MaxSubs == 2
\* The largest number of events emitted in the model of the subscriptions.
MaxEvents == 3
\* The count at which the model stops counting emissions of one event.
MaxCount == 2
\* The longest Vec of watched ports in the model.
MaxWatched == 3
\* The longest payload (`data`) of a Modbus frame in the model.
MaxPayload == 2
\* The number of transactions made on the line in the model.
MaxTxn == 2
\* The longest response the device sends to one request in the model.
MaxResp == 5
\* The longest byte string handed to from_bytes as it came from the port.
MaxRaw == 5

\* ------------------------------------------------------- program constants
\* `if n >= 4` / `response.len() >= 4`: the minimum Modbus RTU frame length.
MinFrame == 4
\* ModbusFrame::MIN_FRAME_LENGTH: address + function code + CRC.
MIN_FRAME_LENGTH == 4
\* CRC_16_MODBUS: init 0xFFFF (also `digest_with_initial(0xFFFF)`).
CrcInit == 65535
\* CRC_16_MODBUS: poly 0x8005 with refin/refout, i.e. 0xA001 shifting right.
CrcPoly == 40961
\* `frame_bytes[1] & 0x80`: the exception bit of the function code.
ExceptionBit == 128

\* ------------------------------------------------------------ universes
Ports == {"COM1"}
Callers == {"u1", "u2"}
RxTask == "rx"
Free == "free"
\* n before the first read of a transaction (no byte count yet).
NoRead == MaxRead + 1
\* Port paths the registry is asked about and the OS may list.
PortIds == {"P1", "P2"}
\* The monitoring task, as a holder of locks.
Monitor == "mon"
\* The caller that runs beside the monitoring task.
User == "u1"
\* Event subscriptions, named in the order of their creation.
Subs == 1..MaxSubs
\* Kinds of SerialPortEvent.
Kinds == {"Added", "Removed", "Reconnected", "Failed", "Status"}
\* HashMap::new(): the map without an entry.
NoPorts == [q \in {} |-> FALSE]
\* Nothing emitted, open_all() not called: the record of a cycle at its start.
\* (`up`: the ports whose PortStatusUpdate of the cycle said is_connected.)
NoneEmitted ==
    [ev |-> [k \in Kinds |-> [q \in PortIds |-> 0]], opens |-> 0, up |-> {}]
\* A registry caller that is in no call.
NoCall == [pc |-> "idle", op |-> "none", arg |-> "none", ret |-> "none", held |-> <<>>]
\* The monitoring task before its first cycle.
MonStart == [pc |-> "sleep", available |-> {}, ports_list |-> {}, snap |-> {},
             todo |-> {}, at |-> "none", reopen |-> FALSE, held |-> <<>>]

\* The Mutexes: task_ports and ports of the registry, event_senders, and
\* the port of a Channel.
LockNames == {"task_ports", "ports", "port", "event_senders"}
\* The tasks that take them: the callers, the monitoring task, the receive
\* task of the Channel.
LockTasks == Callers \cup {Monitor, RxTask}
\* No lock is held, no task is inside an operation.
NoLocks == [held |-> [l \in LockNames |-> Free],
            todo |-> [t \in LockTasks |-> <<>>]]

\* The tasks that call emit_event: a caller in add_task_port, the monitoring
\* task.
Emitters == {User, Monitor}
\* An emitter outside emit_event.
NoEmit == [pc |-> "idle", ev |-> 0, left |-> <<>>, active |-> <<>>]
\* The event_senders lock is free, nothing was emitted.
NoEmits == [lock |-> Free, by |-> <<>>, at |-> [e \in Emitters |-> NoEmit]]

\* No transaction was made: nothing is owed by the device, nothing waits
\* in the input buffer of the port.
NoWire ==
    [pc |-> "idle", txn |-> 0, owed |-> <<>>, buf |-> <<>>, response |-> <<>>,
     ret |-> "none", data |-> <<>>]

\* No frame was built, no bytes were decoded.
NoCodec ==
    [stage |-> "new", how |-> "none",
     frame |-> [slave_address |-> 0, function_code |-> 0, data |-> <<>>],
     bytes |-> <<>>, at |-> 0, result |-> [tag |-> "none"]]

VARIABLES
    port,           \* [Ports -> {"None","Some"}]   Option<SerialStream>
    is_connected,   \* [Ports -> BOOLEAN]           AtomicBool
    cancel_token,   \* [Ports -> BOOLEAN]           TRUE once cancelled
    lock,           \* [Ports -> holder of the port Mutex, or Free]
    ports_lock,     \* holder of the registry's `ports` map Mutex, or Free
    auto,           \* [Ports -> BOOLEAN]           enable_auto_receive
    rx,             \* [Ports -> position of the receive task]
    dp,             \* [Ports -> position of the data processing task]
    queue,          \* [Ports -> 0..QCap]           items in the mpsc queue
    pc,             \* [Callers -> position inside the current call]
    op,             \* [Callers -> the call in progress / last call]
    ch,             \* [Callers -> the Channel the call is made on]
    ret,            \* [Callers -> result of the last completed call]
    acc,            \* [Callers -> response.len() of the transaction]
    n,              \* [Callers -> byte count of the last port.read()]
    \* ---- the registry (src/src/serial/manager.rs)
    ports,          \* [PortIds -> Channel record or NoChan]   the `ports` map
    root_cancel,    \* BOOLEAN          registry_cancel_token, TRUE once cancelled
    task_ports,     \* Seq(PortIds)     the watched ports, a Vec<String>
    task_lock,      \* holder of the task_ports Mutex, or Free
    avail,          \* SUBSET PortIds   what tokio_serial::available_ports() lists
    mon,            \* the monitoring task: position and locals of its cycle
    cyc,            \* what the current monitoring cycle has emitted and called
    added,          \* [PortIds -> PortAddedToMonitoring events emitted so far]
    call,           \* [Callers -> the registry call in progress / last call]
    \* ---- the event subscriptions (event_senders and the receivers)
    senders,        \* Seq(Subs)        event_senders, a Vec<SerialEventSender>
    alive,          \* [Subs -> BOOLEAN]  the receiver exists and was not dropped
    inbox,          \* [Subs -> Seq(events)]  sent, not yet received
    got,            \* [Subs -> Seq(events)]  received by the subscriber, in order
    since,          \* [Subs -> events emitted before the subscription]
    nsubs,          \* subscriptions created so far
    nlog,           \* events emitted so far; an event is named by its number
    \* ---- the Modbus codec (src/src/serial/modbus.rs)
    codec,          \* a frame, its bytes and what from_bytes made of them
    \* ---- the serial line of a transaction-only Channel (base.rs 197-271)
    wire,           \* the transactions, the device and the bytes between them
    \* ---- the four Mutexes and the tasks that take them
    lk,             \* who holds which lock, and what each task does next
    \* ---- emit_event, sender by sender
    em              \* the event_senders lock and the emissions under way

\* The state of the registry beside the lock of its map.
dirVars == <<ports, root_cancel, task_ports, task_lock, avail, mon, cyc, added, call>>

\* The state of the event subscriptions.
evVars == <<senders, alive, inbox, got, since, nsubs, nlog, em>>

vars == <<port, is_connected, cancel_token, lock, ports_lock, auto, rx, dp, queue,
          pc, op, ch, ret, acc, n, dirVars, evVars, codec, wire, lk>>

chanVars == <<port, is_connected, cancel_token, lock>>
regVars == <<ports_lock, dirVars, evVars, codec, wire, lk>>
taskVars == <<auto, rx, dp, queue>>
callVars == <<pc, op, ch, ret, acc, n>>

\* SerialPortManager::new: the handle is absent, the flag false; the two
\* background tasks are spawned only with enable_auto_receive.
\* SerialPortRegistry::new: no port registered, none watched, no subscriber,
\* the root token not cancelled, the monitoring task before its first sleep.
Init ==
    /\ port = [c \in Ports |-> "None"]
    /\ is_connected = [c \in Ports |-> FALSE]
    /\ cancel_token = [c \in Ports |-> FALSE]
    /\ lock = [c \in Ports |-> Free]
    /\ ports_lock = Free
    /\ auto \in [Ports -> BOOLEAN]
    /\ rx = [c \in Ports |-> IF auto[c] THEN "top" ELSE "off"]
    /\ dp = [c \in Ports |-> IF auto[c] THEN "run" ELSE "off"]
    /\ queue = [c \in Ports |-> 0]
    /\ pc = [p \in Callers |-> "idle"]
    /\ op = [p \in Callers |-> "none"]
    /\ ch = [p \in Callers |-> CHOOSE c \in Ports : TRUE]
    /\ ret = [p \in Callers |-> "none"]
    /\ acc = [p \in Callers |-> 0]
    /\ n = [p \in Callers |-> NoRead]
    /\ ports = NoPorts
    /\ root_cancel = FALSE
    /\ task_ports = <<>>
    /\ task_lock = Free
    /\ avail = {}
    /\ mon = MonStart
    /\ cyc = NoneEmitted
    /\ added = [q \in PortIds |-> 0]
    /\ call = [u \in Callers |-> NoCall]
    /\ senders = <<>>
    /\ alive = [s \in Subs |-> FALSE]
    /\ inbox = [s \in Subs |-> <<>>]
    /\ got = [s \in Subs |-> <<>>]
    /\ since = [s \in Subs |-> 0]
    /\ nsubs = 0
    /\ nlog = 0
    /\ codec = NoCodec
    /\ wire = NoWire
    /\ lk = NoLocks
    /\ em = NoEmits

\* A caller enters a call that goes on at `next`: the locals of the previous
\* call are gone.
Enter(p, c, o, next) ==
    /\ pc[p] = "idle"
    /\ pc' = [pc EXCEPT ![p] = next]
    /\ op' = [op EXCEPT ![p] = o]
    /\ ch' = [ch EXCEPT ![p] = c]
    /\ ret' = [ret EXCEPT ![p] = "none"]
    /\ acc' = [acc EXCEPT ![p] = 0]
    /\ n' = [n EXCEPT ![p] = NoRead]

\* A caller makes a call that returns r within the same step.
Instant(p, c, o, r) ==
    /\ pc[p] = "idle"
    /\ pc' = pc
    /\ op' = [op EXCEPT ![p] = o]
    /\ ch' = [ch EXCEPT ![p] = c]
    /\ ret' = [ret EXCEPT ![p] = r]
    /\ acc' = [acc EXCEPT ![p] = 0]
    /\ n' = [n EXCEPT ![p] = NoRead]

\* A call in progress returns r.
Return(p, r) ==
    /\ pc' = [pc EXCEPT ![p] = "idle"]
    /\ ret' = [ret EXCEPT ![p] = r]

\* ------------------------------------------------------------ is_open()
\* fn is_open: one atomic load of the flag.
IsOpen(p, c) ==
    /\ Instant(p, c, "is_open", IF is_connected[c] THEN "true" ELSE "false")
    /\ UNCHANGED <<chanVars, regVars, taskVars>>

\* --------------------------------------------------------------- open()
\* tokio_serial::new(..).open_native_async(): the OS grants the handle or not.
OsOpenResults == {"ok", "err"}

\* Mutant: the initialization handshake fails.
ScpiInitializeFails == "err"

\* async fn scpi_initialize: logs and returns Ok(()).
ScpiInitialize == "ok"

\* Mutant: open() without the `port_guard.is_some()` test: the OS open is
\* attempted whatever the slot holds.
OpenAlways(p, c) ==
    /\ ports_lock = Free
    /\ lock[c] = Free
    /\ \E r \in OsOpenResults :
         IF r = "ok"
         THEN /\ Enter(p, c, "open", "open_store")
              /\ port' = [port EXCEPT ![c] = "Some"]
              /\ lock' = [lock EXCEPT ![c] = p]
              /\ ports_lock' = p
              /\ UNCHANGED is_connected
         ELSE /\ Instant(p, c, "open", "OpenFailed")
              /\ is_connected' = [is_connected EXCEPT ![c] = FALSE]
              /\ UNCHANGED <<port, lock, ports_lock>>
    /\ UNCHANGED <<cancel_token, taskVars, dirVars, evVars, codec, wire, lk>>

\* open() as open_all runs it, with the `ports` map locked; from
\* self.port.lock().await on:  handle present -> store(true), Ok;  else the OS
\* open: on success `*port_guard = Some(stream)` (the store of the flag
\* follows, see OpenStore), on failure store(false), Err.
Open(p, c) ==
    /\ ports_lock = Free
    /\ lock[c] = Free
    /\ IF port[c] = "Some"
       THEN /\ Instant(p, c, "open", "Ok")
            /\ is_connected' = [is_connected EXCEPT ![c] = TRUE]
            /\ UNCHANGED <<port, lock, ports_lock>>
       ELSE \E r \in OsOpenResults :
              IF r = "ok"
              THEN /\ Enter(p, c, "open", "open_store")
                   /\ port' = [port EXCEPT ![c] = "Some"]
                   /\ lock' = [lock EXCEPT ![c] = p]
                   /\ ports_lock' = p
                   /\ UNCHANGED is_connected
              ELSE /\ Instant(p, c, "open", "OpenFailed")
                   /\ is_connected' = [is_connected EXCEPT ![c] = FALSE]
                   /\ UNCHANGED <<port, lock, ports_lock>>
    /\ UNCHANGED <<cancel_token, taskVars, dirVars, evVars, codec, wire, lk>>

\* open(), after the handle was stored: is_connected.store(true), then
\* drop(port_guard); the initialization follows with the lock released.
OpenStore(p) ==
    /\ pc[p] = "open_store"
    /\ is_connected' = [is_connected EXCEPT ![ch[p]] = TRUE]
    /\ lock' = [lock EXCEPT ![ch[p]] = Free]
    /\ pc' = [pc EXCEPT ![p] = "open_init"]
    /\ UNCHANGED <<port, cancel_token, regVars, taskVars, op, ch, ret, acc, n>>

\* -------------------------------------------------------------- close()
\* close(), first half: the guard is taken and the handle dropped
\* (`*port_guard = None`); the flag is still what it was.
DropHandle(p, c) ==
    /\ lock[c] = Free
    /\ lock' = [lock EXCEPT ![c] = p]
    /\ port' = [port EXCEPT ![c] = "None"]
    /\ UNCHANGED <<is_connected, cancel_token>>

\* close() as close_all runs it, with the `ports` map locked.
Close(p, c) ==
    /\ ports_lock = Free
    /\ ports_lock' = p
    /\ Enter(p, c, "close", "close_store")
    /\ DropHandle(p, c)
    /\ UNCHANGED <<taskVars, dirVars, evVars, codec, wire, lk>>

\* What follows close() in the caller: cancel_tasks goes on to cancel the
\* token, open's failed initialization returns its error, close() returns;
\* on return the registry operation ends and unlocks the map.
AfterClose(p) ==
    IF op[p] = "cancel" THEN /\ pc' = [pc EXCEPT ![p] = "cancel_signal"]
                             /\ UNCHANGED <<ret, ports_lock>>
    ELSE /\ Return(p, IF op[p] = "open" THEN "InitFailed" ELSE "Ok")
         /\ ports_lock' = Free

\* Mutant: close() drops the guard without is_connected.store(false).
CloseStoreKeepsFlag(p) ==
    /\ pc[p] = "close_store"
    /\ lock' = [lock EXCEPT ![ch[p]] = Free]
    /\ AfterClose(p)
    /\ UNCHANGED <<port, is_connected, cancel_token, taskVars, op, ch, acc, n,
                   dirVars, evVars, codec, wire, lk>>

\* Mutant: close() also cancels the token (the call left commented out at
\* the end of close()).
CloseStoreCancels(p) ==
    /\ pc[p] = "close_store"
    /\ is_connected' = [is_connected EXCEPT ![ch[p]] = FALSE]
    /\ cancel_token' = [cancel_token EXCEPT ![ch[p]] = TRUE]
    /\ lock' = [lock EXCEPT ![ch[p]] = Free]
    /\ AfterClose(p)
    /\ UNCHANGED <<port, taskVars, op, ch, acc, n, dirVars, evVars, codec, wire, lk>>

\* close(), second half: store(false), the guard is dropped.
CloseStore(p) ==
    /\ pc[p] = "close_store"
    /\ is_connected' = [is_connected EXCEPT ![ch[p]] = FALSE]
    /\ lock' = [lock EXCEPT ![ch[p]] = Free]
    /\ AfterClose(p)
    /\ UNCHANGED <<port, cancel_token, taskVars, op, ch, acc, n, dirVars, evVars, codec, wire, lk>>

\* open(), the match on self.scpi_initialize().await: Ok -> Ok(()); Err ->
\* self.close().await (its first half here, CloseStore follows) and then Err.
OpenInit(p) ==
    /\ pc[p] = "open_init"
    /\ IF ScpiInitialize = "ok"
       THEN /\ Return(p, "Ok")
            /\ ports_lock' = Free
            /\ UNCHANGED chanVars
       ELSE /\ DropHandle(p, ch[p])
            /\ pc' = [pc EXCEPT ![p] = "close_store"]
            /\ UNCHANGED <<ret, ports_lock>>
    /\ UNCHANGED <<taskVars, op, ch, acc, n, dirVars, evVars, codec, wire, lk>>

\* ------------------------------------------------------- cancel_tasks()
\* Mutant: cancel_tasks() cancels the token without closing the port first.
CancelTasksNoClose(p, c) ==
    /\ ports_lock = Free
    /\ ports_lock' = p
    /\ Enter(p, c, "cancel", "cancel_signal")
    /\ UNCHANGED <<chanVars, taskVars, dirVars, evVars, codec, wire, lk>>

\* cancel_tasks() as remove_port runs it, with the `ports` map locked:
\* self.close().await ...
CancelTasks(p, c) ==
    /\ ports_lock = Free
    /\ ports_lock' = p
    /\ Enter(p, c, "cancel", "close_store")
    /\ DropHandle(p, c)
    /\ UNCHANGED <<taskVars, dirVars, evVars, codec, wire, lk>>

\* ... then self.cancel_token.cancel().
CancelSignal(p) ==
    /\ pc[p] = "cancel_signal"
    /\ cancel_token' = [cancel_token EXCEPT ![ch[p]] = TRUE]
    /\ Return(p, "Ok")
    /\ ports_lock' = Free
    /\ UNCHANGED <<port, is_connected, lock, taskVars, op, ch, acc, n,
                   dirVars, evVars, codec, wire, lk>>

\* close_all(): self.registry_cancel_token.cancel(), which cancels the child
\* token of every Channel; the map is not locked for it.
ParentCancel(c) ==
    /\ ~cancel_token[c]
    /\ cancel_token' = [cancel_token EXCEPT ![c] = TRUE]
    /\ UNCHANGED <<port, is_connected, lock, regVars, taskVars, callVars>>

\* --------------------------------------------------------------- send()
\* The fast path of send() and send_modbus_command(): one atomic load of the
\* flag; false -> Err("Serial port not open") without touching the lock.
FastPath(p, c, o, next) ==
    /\ IF is_connected[c]
       THEN Enter(p, c, o, next)
       ELSE Instant(p, c, o, "NotOpen")
    /\ UNCHANGED <<chanVars, regVars, taskVars>>

\* Mutant: the guard is taken without waiting for its holder to let go.
LockPortNoWait(p, at, next) ==
    /\ pc[p] = at
    /\ IF port[ch[p]] = "Some"
       THEN /\ lock' = [lock EXCEPT ![ch[p]] = p]
            /\ pc' = [pc EXCEPT ![p] = next]
            /\ UNCHANGED ret
       ELSE /\ Return(p, "NotOpen")
            /\ UNCHANGED lock
    /\ UNCHANGED <<port, is_connected, cancel_token, regVars, taskVars,
                   op, ch, acc, n>>

\* Mutant: the handle is used without the `if let Some(port)` test.
LockPortNoCheck(p, at, next) ==
    /\ pc[p] = at
    /\ lock[ch[p]] = Free
    /\ lock' = [lock EXCEPT ![ch[p]] = p]
    /\ pc' = [pc EXCEPT ![p] = next]
    /\ UNCHANGED <<port, is_connected, cancel_token, regVars, taskVars,
                   op, ch, ret, acc, n>>

\* self.port.lock().await, then `if let Some(port) = port_guard.as_mut()`:
\* with a handle the call goes on holding the guard, without one it returns
\* Err("Serial port not open") and the guard is dropped.
LockPort(p, at, next) ==
    /\ pc[p] = at
    /\ lock[ch[p]] = Free
    /\ IF port[ch[p]] = "Some"
       THEN /\ lock' = [lock EXCEPT ![ch[p]] = p]
            /\ pc' = [pc EXCEPT ![p] = next]
            /\ UNCHANGED ret
       ELSE /\ Return(p, "NotOpen")
            /\ UNCHANGED lock
    /\ UNCHANGED <<port, is_connected, cancel_token, regVars, taskVars,
                   op, ch, acc, n>>

\* port.write_all(..).await: the OS writes everything or reports an error.
WriteResults == {"ok", "err"}

Send(p, c) == FastPath(p, c, "send", "send_lock")

SendLock(p) == LockPort(p, "send_lock", "send_write")

\* Mutant: a failed write marks the Channel disconnected (the store left
\* commented out in send()'s error branch).
SendWriteMarksClosed(p) ==
    /\ pc[p] = "send_write"
    /\ \E w \in WriteResults :
         /\ Return(p, IF w = "ok" THEN "Ok" ELSE "WriteFailed")
         /\ is_connected' = [is_connected EXCEPT
                               ![ch[p]] = IF w = "ok" THEN @ ELSE FALSE]
    /\ lock' = [lock EXCEPT ![ch[p]] = Free]
    /\ UNCHANGED <<port, cancel_token, regVars, taskVars, op, ch, acc, n>>

\* send(): the write; Ok or the wrapped error, nothing else is touched; the
\* guard is dropped on return.
SendWrite(p) ==
    /\ pc[p] = "send_write"
    /\ \E w \in WriteResults :
         Return(p, IF w = "ok" THEN "Ok" ELSE "WriteFailed")
    /\ lock' = [lock EXCEPT ![ch[p]] = Free]
    /\ UNCHANGED <<port, is_connected, cancel_token, regVars, taskVars,
                   op, ch, acc, n>>

\* ------------------------------------------------ send_modbus_command()
SendModbusCommand(p, c) == FastPath(p, c, "txn", "txn_lock")

TxnLock(p) == LockPort(p, "txn_lock", "txn_write")

\* send_modbus_command(): the request write; an error returns at once.
TxnWrite(p) ==
    /\ pc[p] = "txn_write"
    /\ \E w \in WriteResults :
         IF w = "ok"
         THEN /\ pc' = [pc EXCEPT ![p] = "txn_read"]
              /\ UNCHANGED <<ret, lock>>
         ELSE /\ Return(p, "WriteFailed")
              /\ lock' = [lock EXCEPT ![ch[p]] = Free]
    /\ UNCHANGED <<port, is_connected, cancel_token, regVars, taskVars,
                   op, ch, acc, n>>

\* The read loop's decision after `Ok(n) if n > 0` (k bytes read, total in
\* the response after extend_from_slice): `if n >= 4 { break }`.
FrameComplete(k, total) == k >= MinFrame

\* Mutant: any data received before the zero-length read counts as a response.
EofCompleteAnyData(total) == total > 0

\* The read loop's decision after a zero-length read:
\* `if response.len() >= 4 { break }`, else Err("Connection closed").
EofComplete(total) == total >= MinFrame

\* The transaction ends with r: the guard is dropped.
TxnEnd(p, r) ==
    /\ Return(p, r)
    /\ lock' = [lock EXCEPT ![ch[p]] = Free]

\* One port.read(&mut buffer).await of the loop delivers k > 0 bytes.
TxnReadData(p) ==
    /\ pc[p] = "txn_read"
    /\ \E k \in 1..MaxRead :
         /\ acc[p] + k <= MaxAcc
         /\ n' = [n EXCEPT ![p] = k]
         /\ acc' = [acc EXCEPT ![p] = acc[p] + k]
         /\ IF FrameComplete(k, acc[p] + k)
            THEN TxnEnd(p, "Ok")
            ELSE UNCHANGED <<pc, ret, lock>>
    /\ UNCHANGED <<port, is_connected, cancel_token, regVars, taskVars, op, ch>>

\* The read returns Ok(0).
TxnReadEof(p) ==
    /\ pc[p] = "txn_read"
    /\ n' = [n EXCEPT ![p] = 0]
    /\ TxnEnd(p, IF EofComplete(acc[p]) THEN "Ok" ELSE "ConnectionClosed")
    /\ UNCHANGED <<port, is_connected, cancel_token, regVars, taskVars,
                   op, ch, acc>>

\* The read returns Err(e).
TxnReadError(p) ==
    /\ pc[p] = "txn_read"
    /\ TxnEnd(p, "ReadError")
    /\ UNCHANGED <<port, is_connected, cancel_token, regVars, taskVars,
                   op, ch, acc, n>>

\* time::timeout(timeout, ..) elapses while a read is pending.
TxnTimeout(p) ==
    /\ pc[p] = "txn_read"
    /\ TxnEnd(p, "Timeout")
    /\ UNCHANGED <<port, is_connected, cancel_token, regVars, taskVars,
                   op, ch, acc, n>>

\* ------------------------------------------------------ the receive task
\* Top of the loop: select! between cancel_token.cancelled() and a branch
\* that is always ready.  select! polls its branches in random order, so with
\* the token cancelled the task leaves or goes on.
RxTop(c) ==
    /\ rx[c] = "top"
    /\ \/ /\ cancel_token[c]
          /\ rx' = [rx EXCEPT ![c] = "exit"]
       \/ rx' = [rx EXCEPT ![c] = "lock"]
    /\ UNCHANGED <<chanVars, regVars, auto, dp, queue, callVars>>

\* manager.port.lock().await; with a handle the timed read starts, without
\* one the one-second sleep starts; the guard lives to the end of the
\* iteration in both branches.
RxLock(c) ==
    /\ rx[c] = "lock"
    /\ lock[c] = Free
    /\ lock' = [lock EXCEPT ![c] = RxTask]
    /\ rx' = [rx EXCEPT ![c] = IF port[c] = "Some" THEN "read" ELSE "sleep"]
    /\ UNCHANGED <<port, is_connected, cancel_token, regVars, auto, dp, queue,
                   callVars>>

\* The iteration ends: the guard is dropped, back to the top of the loop.
RxNext(c) ==
    /\ lock' = [lock EXCEPT ![c] = Free]
    /\ rx' = [rx EXCEPT ![c] = "top"]

\* The task leaves the loop (break): the guard is dropped with it.
RxBreak(c) ==
    /\ lock' = [lock EXCEPT ![c] = Free]
    /\ rx' = [rx EXCEPT ![c] = "exit"]

\* select! during the read: the cancellation branch wins.
RxReadCancelled(c) ==
    /\ rx[c] = "read"
    /\ cancel_token[c]
    /\ RxBreak(c)
    /\ UNCHANGED <<port, is_connected, cancel_token, regVars, auto, dp, queue,
                   callVars>>

\* Ok(Ok(n)) with n > 0: the bytes go to data_sender.send(..).await next.
RxReadData(c) ==
    /\ rx[c] = "read"
    /\ rx' = [rx EXCEPT ![c] = "send"]
    /\ UNCHANGED <<chanVars, regVars, auto, dp, queue, callVars>>

\* Ok(Ok(0)) or Ok(Err(e)): `*port_guard = None` ...
RxReadLost(c) ==
    /\ rx[c] = "read"
    /\ port' = [port EXCEPT ![c] = "None"]
    /\ rx' = [rx EXCEPT ![c] = "mark"]
    /\ UNCHANGED <<is_connected, cancel_token, lock, regVars, auto, dp, queue,
                   callVars>>

\* ... then is_connected.store(false); the loop goes on.
RxMark(c) ==
    /\ rx[c] = "mark"
    /\ is_connected' = [is_connected EXCEPT ![c] = FALSE]
    /\ RxNext(c)
    /\ UNCHANGED <<port, cancel_token, regVars, auto, dp, queue, callVars>>

\* Mutant: a timed-out read marks the Channel disconnected (the two
\* statements left commented out in the Err(_) arm).
RxReadTimeoutMarks(c) ==
    /\ rx[c] = "read"
    /\ port' = [port EXCEPT ![c] = "None"]
    /\ is_connected' = [is_connected EXCEPT ![c] = FALSE]
    /\ RxNext(c)
    /\ UNCHANGED <<cancel_token, regVars, auto, dp, queue, callVars>>

\* Err(_): the read timed out; nothing is touched.
RxReadTimeout(c) ==
    /\ rx[c] = "read"
    /\ RxNext(c)
    /\ UNCHANGED <<port, is_connected, cancel_token, regVars, auto, dp, queue,
                   callVars>>

\* Mutant: a failed data_sender.send breaks without is_connected.store(false).
RxSendKeepsFlag(c) ==
    /\ rx[c] = "send"
    /\ IF dp[c] = "exit"
       THEN /\ RxBreak(c)
            /\ UNCHANGED queue
       ELSE /\ queue[c] < QCap
            /\ queue' = [queue EXCEPT ![c] = queue[c] + 1]
            /\ RxNext(c)
    /\ UNCHANGED <<port, is_connected, cancel_token, regVars, auto, dp, callVars>>

\* data_sender.send(..).await: fails once the receiver is dropped (store(false),
\* break), waits while the queue is full, else enqueues.
RxSend(c) ==
    /\ rx[c] = "send"
    /\ IF dp[c] = "exit"
       THEN /\ is_connected' = [is_connected EXCEPT ![c] = FALSE]
            /\ RxBreak(c)
            /\ UNCHANGED queue
       ELSE /\ queue[c] < QCap
            /\ queue' = [queue EXCEPT ![c] = queue[c] + 1]
            /\ RxNext(c)
            /\ UNCHANGED is_connected
    /\ UNCHANGED <<port, cancel_token, regVars, auto, dp, callVars>>

\* The handle is absent: select! between cancellation and sleep(1 s).
RxSleep(c) ==
    /\ rx[c] = "sleep"
    /\ \/ /\ cancel_token[c]
          /\ RxBreak(c)
       \/ RxNext(c)
    /\ UNCHANGED <<port, is_connected, cancel_token, regVars, auto, dp, queue,
                   callVars>>

\* ----------------------------------------------- the data processing task
\* select! between cancellation (break: the receiver and what it holds are
\* dropped) and data_receiver.recv() (one item is taken).
DpCancelled(c) ==
    /\ dp[c] = "run"
    /\ cancel_token[c]
    /\ dp' = [dp EXCEPT ![c] = "exit"]
    /\ queue' = [queue EXCEPT ![c] = 0]
    /\ UNCHANGED <<chanVars, regVars, auto, rx, callVars>>

DpRecv(c) ==
    /\ dp[c] = "run"
    /\ queue[c] > 0
    /\ queue' = [queue EXCEPT ![c] = queue[c] - 1]
    /\ UNCHANGED <<chanVars, regVars, auto, rx, dp, callVars>>

\* ------------------------------------------------------------------ Spec
CallerStep(p) ==
    \/ \E c \in Ports : IsOpen(p, c)
    \/ \E c \in Ports : Open(p, c)
    \/ OpenStore(p)
    \/ OpenInit(p)
    \/ \E c \in Ports : Close(p, c)
    \/ CloseStore(p)
    \/ \E c \in Ports : CancelTasks(p, c)
    \/ CancelSignal(p)
    \/ \E c \in Ports : Send(p, c)
    \/ SendLock(p)
    \/ SendWrite(p)
    \/ \E c \in Ports : SendModbusCommand(p, c)
    \/ TxnLock(p)
    \/ TxnWrite(p)
    \/ TxnReadData(p)
    \/ TxnReadEof(p)
    \/ TxnReadError(p)
    \/ TxnTimeout(p)

TaskStep(c) ==
    \/ ParentCancel(c)
    \/ RxTop(c)
    \/ RxLock(c)
    \/ RxReadCancelled(c)
    \/ RxReadData(c)
    \/ RxReadLost(c)
    \/ RxMark(c)
    \/ RxReadTimeout(c)
    \/ RxSend(c)
    \/ RxSleep(c)
    \/ DpCancelled(c)
    \/ DpRecv(c)

Next ==
    \/ \E p \in Callers : CallerStep(p)
    \/ \E c \in Ports : TaskStep(c)

Spec == Init /\ [][Next]_vars

\* ---------------------------------------------------------------- BornSpec
\* A Channel made by add_port after the root token was cancelled: SerialPortManager::new
\* gets registry_cancel_token.child_token(), a token that is cancelled from
\* the start, and spawns both tasks (enable_auto_receive = true).
BornInit ==
    /\ port = [c \in Ports |-> "None"]
    /\ is_connected = [c \in Ports |-> FALSE]
    /\ cancel_token = [c \in Ports |-> TRUE]
    /\ lock = [c \in Ports |-> Free]
    /\ ports_lock = Free
    /\ auto = [c \in Ports |-> TRUE]
    /\ rx = [c \in Ports |-> "top"]
    /\ dp = [c \in Ports |-> "run"]
    /\ queue = [c \in Ports |-> 0]
    /\ pc = [p \in Callers |-> "idle"]
    /\ op = [p \in Callers |-> "none"]
    /\ ch = [p \in Callers |-> CHOOSE c \in Ports : TRUE]
    /\ ret = [p \in Callers |-> "none"]
    /\ acc = [p \in Callers |-> 0]
    /\ n = [p \in Callers |-> NoRead]
    /\ ports = NoPorts
    /\ root_cancel = TRUE
    /\ task_ports = <<>>
    /\ task_lock = Free
    /\ avail = {}
    /\ mon = MonStart
    /\ cyc = NoneEmitted
    /\ added = [q \in PortIds |-> 0]
    /\ call = [u \in Callers |-> NoCall]
    /\ senders = <<>>
    /\ alive = [s \in Subs |-> FALSE]
    /\ inbox = [s \in Subs |-> <<>>]
    /\ got = [s \in Subs |-> <<>>]
    /\ since = [s \in Subs |-> 0]
    /\ nsubs = 0
    /\ nlog = 0
    /\ codec = NoCodec
    /\ wire = NoWire
    /\ lk = NoLocks
    /\ em = NoEmits

\* The two tasks of a Channel.
BornTaskStep(c) ==
    \/ RxTop(c)
    \/ RxLock(c)
    \/ RxReadCancelled(c)
    \/ RxReadData(c)
    \/ RxReadLost(c)
    \/ RxMark(c)
    \/ RxReadTimeout(c)
    \/ RxSend(c)
    \/ RxSleep(c)
    \/ DpCancelled(c)
    \/ DpRecv(c)

\* The callers and the tasks of a Channel whose token was cancelled when it
\* was made.
BornNext ==
    \/ \E p \in Callers : CallerStep(p)
    \/ \E c \in Ports : BornTaskStep(c)

BornSpec == BornInit /\ [][BornNext]_vars

TypeOK ==
    /\ port \in [Ports -> {"None", "Some"}]
    /\ is_connected \in [Ports -> BOOLEAN]
    /\ cancel_token \in [Ports -> BOOLEAN]
    /\ lock \in [Ports -> Callers \cup {RxTask, Free}]
    /\ ports_lock \in Callers \cup {Monitor, Free}
    /\ auto \in [Ports -> BOOLEAN]
    /\ rx \in [Ports -> {"off", "top", "lock", "read", "mark", "send", "sleep", "exit"}]
    /\ dp \in [Ports -> {"off", "run", "exit"}]
    /\ queue \in [Ports -> 0..QCap]
    /\ pc \in [Callers -> {"idle", "open_store", "open_init", "close_store", "cancel_signal",
                           "send_lock", "send_write", "txn_lock", "txn_write",
                           "txn_read"}]
    /\ ch \in [Callers -> Ports]
    /\ acc \in [Callers -> 0..MaxAcc]
    /\ n \in [Callers -> 0..NoRead]

\* ====================================================================
\* The registry (src/src/serial/manager.rs): the `ports` map, the watched
\* ports, the root cancellation token, the callers of its operations and
\* its monitoring task.
\*
\* A Channel inside the registry is a record
\*   handle     "None" / "Some"     the Option<SerialStream>
\*   connected  BOOLEAN             is_connected
\*   own        BOOLEAN             its own token was cancelled (cancel_tasks)
\*   child      BOOLEAN             its token is a child of the root token
\*   lost       BOOLEAN             the receive task dropped the handle on a
\*                                  read of 0 bytes or an error, and no open()
\*                                  has got a handle since
\*   auto_receive  BOOLEAN          enable_auto_receive: true from add_port,
\*                                  false (probe-only) from add_scpi_port
\* open(), close() and cancel_tasks() on it are single steps here: they run
\* with the map locked, and what they leave behind when they return is what
\* the Channel actions above leave behind.  A step of the registry is one
\* critical section of the map or of the watched ports, or one .await on
\* port I/O made with the map locked.
\* ====================================================================

\* Mutant: the Channel gets a fresh token instead of
\* registry_cancel_token.child_token().
NewChannelOwnToken(autoRx) ==
    [handle |-> "None", connected |-> FALSE, own |-> FALSE, child |-> FALSE,
     auto_receive |-> autoRx, lost |-> FALSE]

\* SerialPortManager::new (enable_auto_receive = autoRx) / new_for_scpi
\* (enable_auto_receive = false) with a child of the root token.
NewChannel(autoRx) ==
    [handle |-> "None", connected |-> FALSE, own |-> FALSE, child |-> TRUE,
     auto_receive |-> autoRx, lost |-> FALSE]

\* cancel_token.is_cancelled(): a child token is cancelled with its parent.
Cancelled(c) == c.own \/ (c.child /\ root_cancel)

\* What close() leaves of a Channel.
Closed(c) == [c EXCEPT !.handle = "None", !.connected = FALSE]

\* What cancel_tasks() leaves of a Channel: close(), then cancel().
TasksCancelled(c) == [Closed(c) EXCEPT !.own = TRUE]

\* What open() leaves of a Channel; ok: the OS grants the handle.
Opened(c, ok) ==
    IF c.handle = "Some" THEN [c EXCEPT !.connected = TRUE]
    ELSE IF ok THEN [c EXCEPT !.handle = "Some", !.connected = TRUE,
                              !.lost = FALSE]
    ELSE [c EXCEPT !.connected = FALSE]

\* ports.insert(p, c) and ports.remove(p)
Insert(m, p, c) == [q \in DOMAIN m \cup {p} |-> IF q = p THEN c ELSE m[q]]

Without(m, p) == [q \in DOMAIN m \ {p} |-> m[q]]

\* The strings in a Vec<String>.
Elems(s) == {s[i] : i \in DOMAIN s}

\* One more emission counted.
Bump(x) == IF x < MaxCount THEN x + 1 ELSE x

\* registry.emit_event(..) in the monitoring task: an event of kind k for
\* each port of S.
CycleEmits(k, S) ==
    [cyc EXCEPT !.ev[k] = [q \in PortIds |-> IF q \in S THEN Bump(@[q]) ELSE @[q]]]

\* PortAddedToMonitoring emitted for each port of S.
AddedEmits(S) == [q \in PortIds |-> IF q \in S THEN Bump(added[q]) ELSE added[q]]

\* Everything beside the registry.
offReg == <<port, is_connected, cancel_token, lock, auto, rx, dp, queue,
            pc, op, ch, ret, acc, n, evVars, codec, wire, lk>>

\* ------------------------------------------------- the callers' operations
\* A caller makes the call o(p): it goes on at `next`, or has returned r when
\* `next` is "idle"; h is the Channel the call holds.
RegCall(u, o, p, next, r, h) ==
    /\ call[u].pc = "idle"
    /\ call' = [call EXCEPT ![u] = [pc |-> next, op |-> o, arg |-> p,
                                    ret |-> r, held |-> h]]

\* The call in progress returns r.
RegReturn(u, r) ==
    call' = [call EXCEPT ![u].pc = "idle", ![u].ret = r]

\* add_port / add_port_with_defaults (auto-receive) and add_scpi_port are
\* called: self.ports.lock().await comes first.
AddCall(u, p, autoRx) ==
    /\ RegCall(u, IF autoRx THEN "add_port" ELSE "add_scpi_port", p, "add_lock",
               "none", <<>>)
    /\ UNCHANGED <<ports, root_cancel, task_ports, task_lock, avail, mon, cyc,
                   added, ports_lock, offReg>>

\* Mutant: add without the contains_key test: the entry is overwritten.
AddResultOverwrites(p) == "Ok"

\* The body of add_port / add_scpi_port under the map lock: contains_key ->
\* Err("already exists"); else a Channel with a child token is inserted.
AddResult(p) == IF p \in DOMAIN ports THEN "AlreadyRegistered" ELSE "Ok"

AddedMap(p, autoRx) ==
    IF AddResult(p) = "Ok" THEN Insert(ports, p, NewChannel(autoRx)) ELSE ports

\* The add got the map lock, ran its body and returned.
AddLocked(u) ==
    /\ call[u].pc = "add_lock"
    /\ ports_lock = Free
    /\ ports' = AddedMap(call[u].arg, call[u].op = "add_port")
    /\ RegReturn(u, AddResult(call[u].arg))
    /\ UNCHANGED <<root_cancel, task_ports, task_lock, avail, mon, cyc, added,
                   ports_lock, offReg>>

\* Mutant: remove_port also takes the port out of the watched ports.
RemovePortUnwatches(u, p) ==
    /\ ports_lock = Free
    /\ task_lock = Free
    /\ task_ports' = SelectSeq(task_ports, LAMBDA q : q # p)
    /\ IF p \in DOMAIN ports
       THEN /\ RegCall(u, "remove_port", p, "rm_cancel", "none", <<ports[p]>>)
            /\ ports' = Without(ports, p)
            /\ ports_lock' = u
       ELSE /\ RegCall(u, "remove_port", p, "idle", "None", <<>>)
            /\ UNCHANGED <<ports, ports_lock>>
    /\ UNCHANGED <<root_cancel, task_lock, avail, mon, cyc, added, offReg>>

\* remove_port(p): the map is locked; with an entry, ports.remove(p) and the
\* call goes on to cancel_tasks() holding the lock; without, None.
RemovePort(u, p) ==
    /\ ports_lock = Free
    /\ IF p \in DOMAIN ports
       THEN /\ RegCall(u, "remove_port", p, "rm_cancel", "none", <<ports[p]>>)
            /\ ports' = Without(ports, p)
            /\ ports_lock' = u
       ELSE /\ RegCall(u, "remove_port", p, "idle", "None", <<>>)
            /\ UNCHANGED <<ports, ports_lock>>
    /\ UNCHANGED <<root_cancel, task_ports, task_lock, avail, mon, cyc, added,
                   offReg>>

\* Mutant: remove_port returns the Channel without manager.cancel_tasks().
RemoveCancelSkipped(u) ==
    /\ call[u].pc = "rm_cancel"
    /\ RegReturn(u, "Some")
    /\ ports_lock' = Free
    /\ UNCHANGED <<ports, root_cancel, task_ports, task_lock, avail, mon, cyc,
                   added, offReg>>

\* remove_port, after the entry was taken out: manager.cancel_tasks().await,
\* Some(manager); the map is unlocked on return.
RemoveCancel(u) ==
    /\ call[u].pc = "rm_cancel"
    /\ call' = [call EXCEPT ![u].pc = "idle", ![u].ret = "Some",
                            ![u].held = <<TasksCancelled(call[u].held[1])>>]
    /\ ports_lock' = Free
    /\ UNCHANGED <<ports, root_cancel, task_ports, task_lock, avail, mon, cyc,
                   added, offReg>>

\* The Channels open_all() calls open() on: `.filter(|m| !m.is_open())`.
OpenTargets == {q \in DOMAIN ports : ~ports[q].connected}

\* The map after join_all(open_futures): open() has run on every target; S
\* are the ports whose handle the OS granted.
OpenedAll(S) ==
    [q \in DOMAIN ports |->
        IF q \in OpenTargets THEN Opened(ports[q], q \in S) ELSE ports[q]]

\* open_all(): the map is locked ...
OpenAll(u) ==
    /\ ports_lock = Free
    /\ ports_lock' = u
    /\ RegCall(u, "open_all", "none", "oa_join", "none", <<>>)
    /\ UNCHANGED <<ports, root_cancel, task_ports, task_lock, avail, mon, cyc,
                   added, offReg>>

\* ... the opens are joined (the OS can grant the handle of a port it lists;
\* a failure is logged), and the map is unlocked.
OpenAllJoin(u) ==
    /\ call[u].pc = "oa_join"
    /\ \E S \in SUBSET (OpenTargets \cap avail) : ports' = OpenedAll(S)
    /\ RegReturn(u, "Ok")
    /\ ports_lock' = Free
    /\ UNCHANGED <<root_cancel, task_ports, task_lock, avail, mon, cyc, added,
                   offReg>>

\* close_all(): self.registry_cancel_token.cancel(), then sleep(1 s).
CloseAll(u) ==
    /\ root_cancel' = TRUE
    /\ RegCall(u, "close_all", "none", "ca_sleep", "none", <<>>)
    /\ UNCHANGED <<ports, task_ports, task_lock, avail, mon, cyc, added,
                   ports_lock, offReg>>

\* The sleep is over and the map is locked.
CloseAllLock(u) ==
    /\ call[u].pc = "ca_sleep"
    /\ ports_lock = Free
    /\ ports_lock' = u
    /\ call' = [call EXCEPT ![u].pc = "ca_join"]
    /\ UNCHANGED <<ports, root_cancel, task_ports, task_lock, avail, mon, cyc,
                   added, offReg>>

\* join_all(close_futures): close() has run on every Channel of the map; the
\* map is unlocked.
CloseAllJoin(u) ==
    /\ call[u].pc = "ca_join"
    /\ ports' = [q \in DOMAIN ports |-> Closed(ports[q])]
    /\ RegReturn(u, "Ok")
    /\ ports_lock' = Free
    /\ UNCHANGED <<root_cancel, task_ports, task_lock, avail, mon, cyc, added,
                   offReg>>

\* Mutant: add_task_port pushes and emits whatever the Vec holds.
WatchesAnyway(p) == TRUE

\* add_task_port: `if !task_ports.contains(..)`.
Watches(p) == p \notin Elems(task_ports)

\* add_task_port(p), the whole of it under the task_ports lock: push and emit
\* PortAddedToMonitoring unless the port is already watched.
AddTaskPort(u, p) ==
    /\ task_lock = Free
    /\ RegCall(u, "add_task_port", p, "idle", "Ok", <<>>)
    /\ IF Watches(p)
       THEN /\ Len(task_ports) < MaxWatched
            /\ task_ports' = Append(task_ports, p)
            /\ added' = AddedEmits({p})
       ELSE UNCHANGED <<task_ports, added>>
    /\ UNCHANGED <<ports, root_cancel, task_lock, avail, mon, cyc, ports_lock,
                   offReg>>

\* ---------------------------------------------------------- the OS
\* A device appears in / disappears from the list of the OS.
Plug(p) ==
    /\ p \notin avail
    /\ avail' = avail \cup {p}
    /\ UNCHANGED <<ports, root_cancel, task_ports, task_lock, mon, cyc, added,
                   call, ports_lock, offReg>>

Unplug(p) ==
    /\ p \in avail
    /\ avail' = avail \ {p}
    /\ UNCHANGED <<ports, root_cancel, task_ports, task_lock, mon, cyc, added,
                   call, ports_lock, offReg>>

\* ------------------------------------------------- the monitoring task
\* The cycle visits ports in four loops; each await inside a loop (on the map
\* lock, on cancel_tasks) ends a step, and the loop control between two
\* awaits belongs to the step before it.

\* 3.1 `if !task_ports.contains(port)`, on the clone of the watched ports.
Adopts(p, watched) == p \notin watched

\* Mutant: 3.1 goes over the ports the OS lists.
AdoptCandidatesAvailable(m) == m.available

\* 3.1 `for port in &ports_list`: the keys of the map read in step 2.
AdoptCandidates(m) == m.ports_list

\* Mutant: 3.3 re-registers every port the OS lists.
ReaddsAll(m) == m.available

\* 3.3 `if task_ports.contains(port) && !ports_list.contains(port)` over
\* available_ports.
Readds(m) == {q \in m.available : q \in m.snap /\ q \notin m.ports_list}

\* The ports a loop of the cycle has work for, from the cycle's snapshots:
\* 3.1 the registered ports that are not watched; 3.2 the registered ports
\* the OS does not list; 3.3 see Readds; then every port the OS lists.
PhaseTodo(m, ph) ==
    CASE ph = "adopt"   -> {q \in AdoptCandidates(m) : Adopts(q, m.snap)}
      [] ph = "removed" -> m.ports_list \ m.available
      [] ph = "readd"   -> Readds(m)
      [] ph = "status"  -> m.available

\* The order of the loops.
PhaseAfter(ph) ==
    CASE ph = "adopt" -> "removed" [] ph = "removed" -> "readd"
      [] ph = "readd" -> "status"

\* Mutant: open_all() is called at the end of every cycle.
ReopensAlways(m) == TRUE

\* `if reopen { registry.open_all().await }`
Reopens(m) == m.reopen

\* The monitoring task with locals m goes on to where it next awaits: the next
\* port of its loop, else the first later loop that has a port, else
\* open_all() if reopen is set, else the end of the iteration.
RECURSIVE Settle(_)
Settle(m) ==
    IF m.todo # {} THEN m
    ELSE IF m.pc = "status"
         THEN [m EXCEPT !.pc = IF Reopens(m) THEN "open_all" ELSE "done"]
         ELSE Settle([m EXCEPT !.pc = PhaseAfter(m.pc),
                               !.todo = PhaseTodo(m, PhaseAfter(m.pc))])

\* Top of the loop: select! between cancel_token.cancelled() (break) and
\* sleep(500 ms), then 1. tokio_serial::available_ports().  (On Err the loop
\* continues with the next sleep, which changes nothing.)
MonWake ==
    /\ mon.pc = "sleep"
    /\ mon' = IF root_cancel THEN [mon EXCEPT !.pc = "exit"]
              ELSE [mon EXCEPT !.pc = "keys", !.available = avail]
    /\ UNCHANGED <<ports, root_cancel, task_ports, task_lock, avail, cyc, added,
                   call, ports_lock, offReg>>

\* 2. ports_list = the keys of the map, read under its lock.
MonKeys ==
    /\ mon.pc = "keys"
    /\ ports_lock = Free
    /\ mon' = [mon EXCEPT !.pc = "watch", !.ports_list = DOMAIN ports]
    /\ UNCHANGED <<ports, root_cancel, task_ports, task_lock, avail, cyc,
                   added, call, ports_lock, offReg>>

\* 3. registry.task_ports.lock().await: the guard lives to the end of the
\* iteration; task_ports = its clone.
MonWatch ==
    /\ mon.pc = "watch"
    /\ task_lock = Free
    /\ task_lock' = Monitor
    /\ LET m == [mon EXCEPT !.pc = "adopt", !.snap = Elems(task_ports)]
       IN  mon' = Settle([m EXCEPT !.todo = PhaseTodo(m, "adopt")])
    /\ UNCHANGED <<ports, root_cancel, task_ports, avail, cyc, added, call,
                   ports_lock, offReg>>

\* 3.1 for port in &ports_list: a registered port that is not watched is
\* pushed and PortAddedToMonitoring is emitted.
MonAdopt ==
    /\ mon.pc = "adopt"
    /\ \E p \in mon.todo :
         /\ Len(task_ports) < MaxWatched
         /\ task_ports' = Append(task_ports, p)
         /\ cyc' = CycleEmits("Added", {p})
         /\ added' = AddedEmits({p})
         /\ mon' = Settle([mon EXCEPT !.todo = @ \ {p}])
    /\ UNCHANGED <<ports, root_cancel, task_lock, avail, call, ports_lock,
                   offReg>>

\* 3.2 for port in &ports_list, `if !available_ports.contains(port)`:
\* PortRemovedFromSystem is emitted, then registry.remove_port(port): the map
\* is locked; with an entry, ports.remove and on to cancel_tasks(); without,
\* None.
MonRemove ==
    /\ mon.pc = "removed"
    /\ \E p \in mon.todo :
         /\ ports_lock = Free
         /\ cyc' = CycleEmits("Removed", {p})
         /\ IF p \in DOMAIN ports
            THEN /\ ports' = Without(ports, p)
                 /\ ports_lock' = Monitor
                 /\ mon' = [mon EXCEPT !.pc = "rm_cancel", !.at = p,
                                       !.held = <<ports[p]>>]
            ELSE /\ mon' = Settle([mon EXCEPT !.todo = @ \ {p}, !.at = p,
                                              !.held = <<>>])
                 /\ UNCHANGED <<ports, ports_lock>>
    /\ UNCHANGED <<root_cancel, task_ports, task_lock, avail, added, call,
                   offReg>>

\* Mutant: remove_port inside 3.2 returns without manager.cancel_tasks().
MonRemoveCancelSkipped ==
    /\ mon.pc = "rm_cancel"
    /\ mon' = Settle([mon EXCEPT !.pc = "removed", !.todo = @ \ {mon.at}])
    /\ ports_lock' = Free
    /\ UNCHANGED <<ports, root_cancel, task_ports, task_lock, avail, cyc,
                   added, call, offReg>>

\* remove_port inside 3.2, after the entry was taken out:
\* manager.cancel_tasks().await; the map is unlocked on return.
MonRemoveCancel ==
    /\ mon.pc = "rm_cancel"
    /\ mon' = Settle([mon EXCEPT !.pc = "removed", !.todo = @ \ {mon.at},
                                 !.held = <<TasksCancelled(mon.held[1])>>])
    /\ ports_lock' = Free
    /\ UNCHANGED <<ports, root_cancel, task_ports, task_lock, avail, cyc,
                   added, call, offReg>>

\* 3.3 for the ports of Readds: add_scpi_port(port, 9600); Ok ->
\* PortReconnected, reopen = true; Err -> PortConnectionFailed.
MonReadd ==
    /\ mon.pc = "readd"
    /\ \E p \in mon.todo :
         /\ ports_lock = Free
         /\ ports' = AddedMap(p, FALSE)
         /\ cyc' = CycleEmits(IF AddResult(p) = "Ok" THEN "Reconnected"
                              ELSE "Failed", {p})
         /\ mon' = Settle([mon EXCEPT
                             !.todo = @ \ {p}, !.at = "none", !.held = <<>>,
                             !.reopen = (AddResult(p) = "Ok") \/ @])
    /\ UNCHANGED <<root_cancel, task_ports, task_lock, avail, added, call,
                   ports_lock, offReg>>

\* Mutant: the status loop reports every port of the OS list.
ReportsListed(p) == TRUE

\* The status loop: `if let Some(manager) = registry.get_port(port).await`.
Reports(p) == p \in DOMAIN ports

\* PortStatusUpdate {port, is_connected: manager.is_open(), is_available:
\* true} is emitted for port p.
StatusEmits(p) ==
    [CycleEmits("Status", {p}) EXCEPT
        !.up = IF p \in DOMAIN ports /\ ports[p].connected
               THEN @ \cup {p} ELSE @]

\* for port in &available_ports: `if let Some(manager) = get_port(port)`,
\* PortStatusUpdate is emitted.
MonStatus ==
    /\ mon.pc = "status"
    /\ \E p \in mon.todo :
         /\ ports_lock = Free
         /\ cyc' = IF Reports(p) THEN StatusEmits(p) ELSE cyc
         /\ mon' = Settle([mon EXCEPT !.todo = @ \ {p}, !.at = "none",
                                      !.held = <<>>])
    /\ UNCHANGED <<ports, root_cancel, task_ports, task_lock, avail, added,
                   call, ports_lock, offReg>>

\* registry.open_all() at the end of the cycle: the map is locked ...
MonOpenAll ==
    /\ mon.pc = "open_all"
    /\ ports_lock = Free
    /\ ports_lock' = Monitor
    /\ mon' = [mon EXCEPT !.pc = "oa_join", !.at = "none", !.held = <<>>]
    /\ cyc' = [cyc EXCEPT !.opens = Bump(@)]
    /\ UNCHANGED <<ports, root_cancel, task_ports, task_lock, avail, added,
                   call, offReg>>

\* Mutant: open_all emits PortConnectionFailed for every open() that
\* failed.
MonOpenJoinReports ==
    /\ mon.pc = "oa_join"
    /\ \E S \in SUBSET (OpenTargets \cap avail) :
         /\ ports' = OpenedAll(S)
         /\ cyc' = CycleEmits("Failed", OpenTargets \ S)
    /\ ports_lock' = Free
    /\ mon' = [mon EXCEPT !.pc = "done"]
    /\ UNCHANGED <<root_cancel, task_ports, task_lock, avail, added, call,
                   offReg>>

\* ... the opens are joined and the map is unlocked.
MonOpenJoin ==
    /\ mon.pc = "oa_join"
    /\ \E S \in SUBSET (OpenTargets \cap avail) : ports' = OpenedAll(S)
    /\ ports_lock' = Free
    /\ mon' = [mon EXCEPT !.pc = "done"]
    /\ UNCHANGED <<root_cancel, task_ports, task_lock, avail, cyc, added, call,
                   offReg>>

\* The iteration is over: its locals and the task_ports guard are dropped,
\* the next sleep starts.
MonEnd ==
    /\ mon.pc = "done"
    /\ mon' = MonStart
    /\ cyc' = NoneEmitted
    /\ task_lock' = Free
    /\ UNCHANGED <<ports, root_cancel, task_ports, avail, added, call,
                   ports_lock, offReg>>

\* ------------------------------------------------------------- RegSpec
RegCallerStep(u) ==
    \/ \E p \in PortIds, autoRx \in BOOLEAN : AddCall(u, p, autoRx)
    \/ AddLocked(u)
    \/ \E p \in PortIds : RemovePort(u, p)
    \/ RemoveCancel(u)
    \/ OpenAll(u)
    \/ OpenAllJoin(u)
    \/ CloseAll(u)
    \/ CloseAllLock(u)
    \/ CloseAllJoin(u)
    \/ \E p \in PortIds : AddTaskPort(u, p)

MonStep ==
    \/ MonWake
    \/ MonKeys
    \/ MonWatch
    \/ MonAdopt
    \/ MonRemove
    \/ MonRemoveCancel
    \/ MonReadd
    \/ MonStatus
    \/ MonOpenAll
    \/ MonOpenJoin
    \/ MonEnd

RegInit ==
    /\ Init
    /\ auto = [c \in Ports |-> FALSE]

OsStep == \E p \in PortIds : Plug(p) \/ Unplug(p)

\* The registry with its monitoring task and one caller of its operations
\* (of the two adds the caller runs add_port, the monitoring task
\* add_scpi_port).
RegNext ==
    \/ \E p \in PortIds : AddCall(User, p, TRUE)
    \/ AddLocked(User)
    \/ \E p \in PortIds : RemovePort(User, p)
    \/ RemoveCancel(User)
    \/ OpenAll(User)
    \/ OpenAllJoin(User)
    \/ CloseAll(User)
    \/ CloseAllLock(User)
    \/ CloseAllJoin(User)
    \/ \E p \in PortIds : AddTaskPort(User, p)
    \/ MonStep
    \/ OsStep

RegSpec == RegInit /\ [][RegNext]_vars

\* The operations of the registry under concurrent callers, the monitoring
\* task asleep.
MapNext ==
    \/ \E u \in Callers : RegCallerStep(u)
    \/ OsStep

MapSpec == RegInit /\ [][MapNext]_vars

\* ------------------------------------- the registry left to its own loop
\* The receive task of the registered Channel p (auto-receive, opened, not
\* cancelled) reads 0 bytes or an error: `*port_guard = None`,
\* is_connected.store(false).
RxLost(p) ==
    /\ p \in DOMAIN ports
    /\ ports[p].auto_receive
    /\ ports[p].handle = "Some"
    /\ ~Cancelled(ports[p])
    /\ ports_lock = Free
    /\ ports' = [ports EXCEPT ![p] = [Closed(@) EXCEPT !.lost = TRUE]]
    /\ UNCHANGED <<root_cancel, task_ports, task_lock, avail, mon, cyc, added,
                   call, ports_lock, offReg>>

\* The registry after a caller's add_port on the ports R the OS lists and
\* its open_all(), which opened them all; the caller makes no further call.
LoopInit ==
    /\ port = [c \in Ports |-> "None"]
    /\ is_connected = [c \in Ports |-> FALSE]
    /\ cancel_token = [c \in Ports |-> FALSE]
    /\ lock = [c \in Ports |-> Free]
    /\ ports_lock = Free
    /\ auto = [c \in Ports |-> FALSE]
    /\ rx = [c \in Ports |-> "off"]
    /\ dp = [c \in Ports |-> "off"]
    /\ queue = [c \in Ports |-> 0]
    /\ pc = [p \in Callers |-> "idle"]
    /\ op = [p \in Callers |-> "none"]
    /\ ch = [p \in Callers |-> CHOOSE c \in Ports : TRUE]
    /\ ret = [p \in Callers |-> "none"]
    /\ acc = [p \in Callers |-> 0]
    /\ n = [p \in Callers |-> NoRead]
    /\ \E R \in SUBSET PortIds \ {{}} :
         /\ ports = [q \in R |-> Opened(NewChannel(TRUE), TRUE)]
         /\ avail = R
    /\ root_cancel = FALSE
    /\ task_ports = <<>>
    /\ task_lock = Free
    /\ mon = MonStart
    /\ cyc = NoneEmitted
    /\ added = [q \in PortIds |-> 0]
    /\ call = [u \in Callers |->
                 IF u = User THEN [NoCall EXCEPT !.op = "open_all", !.ret = "Ok"]
                 ELSE NoCall]
    /\ senders = <<>>
    /\ alive = [s \in Subs |-> FALSE]
    /\ inbox = [s \in Subs |-> <<>>]
    /\ got = [s \in Subs |-> <<>>]
    /\ since = [s \in Subs |-> 0]
    /\ nsubs = 0
    /\ nlog = 0
    /\ codec = NoCodec
    /\ wire = NoWire
    /\ lk = NoLocks
    /\ em = NoEmits

\* The OS lists and drops ports, receive tasks lose their ports, the
\* monitoring task runs its cycles.
LoopNext ==
    \/ \E p \in PortIds : RxLost(p)
    \/ MonStep
    \/ OsStep

\* The monitoring task is a spawned task of the runtime: it is not starved.
LoopSpec == LoopInit /\ [][LoopNext]_vars /\ WF_vars(MonStep)

\* ---------------------------------------------- sending through the registry
\* manager.send(data) on a Channel: Err("Serial port not open") when it is
\* not connected or has no handle, else what write_all gives.
SendResults(c) ==
    IF c.connected /\ c.handle = "Some" THEN {"Ok", "Err"} ELSE {"Err"}

\* send_data(p, data): get_port(p) locks the map for the lookup; None ->
\* Err("not found"), Some(manager) -> the call goes on to manager.send.
SendData(u, p) ==
    /\ ports_lock = Free
    /\ IF p \in DOMAIN ports
       THEN RegCall(u, "send_data", p, "sd_send", "none", <<>>)
       ELSE RegCall(u, "send_data", p, "idle", "NotFound", <<>>)
    /\ UNCHANGED <<ports, root_cancel, task_ports, task_lock, avail, mon, cyc,
                   added, ports_lock, offReg>>

\* send_data returns what manager.send(data) returned (a Channel that was
\* taken out of the map meanwhile was closed by cancel_tasks).
SendDataSend(u) ==
    /\ call[u].pc = "sd_send"
    /\ \E r \in (IF call[u].arg \in DOMAIN ports
                  THEN SendResults(ports[call[u].arg]) ELSE {"Err"}) :
         RegReturn(u, r)
    /\ UNCHANGED <<ports, root_cancel, task_ports, task_lock, avail, mon, cyc,
                   added, ports_lock, offReg>>

\* send_data_to_all(data): the map is locked ...
SendDataToAll(u) ==
    /\ ports_lock = Free
    /\ ports_lock' = u
    /\ RegCall(u, "send_data_to_all", "none", "sa_join", "none", <<>>)
    /\ UNCHANGED <<ports, root_cancel, task_ports, task_lock, avail, mon, cyc,
                   added, offReg>>

\* ... the sends are joined (each `if let Err(e)` is logged), Ok(()) is
\* returned and the map is unlocked.  send() changes nothing of a Channel.
SendAllJoin(u) ==
    /\ call[u].pc = "sa_join"
    /\ RegReturn(u, "Ok")
    /\ ports_lock' = Free
    /\ UNCHANGED <<ports, root_cancel, task_ports, task_lock, avail, mon, cyc,
                   added, offReg>>

\* A caller that registers ports, opens them and sends to them.
SendCallerStep(u) ==
    \/ \E p \in PortIds : AddCall(u, p, TRUE)
    \/ AddLocked(u)
    \/ OpenAll(u)
    \/ OpenAllJoin(u)
    \/ \E p \in PortIds : SendData(u, p)
    \/ SendDataSend(u)
    \/ SendDataToAll(u)
    \/ SendAllJoin(u)

SendNext ==
    \/ \E u \in Callers : SendCallerStep(u)
    \/ OsStep

SendSpec == RegInit /\ [][SendNext]_vars

\* ====================================================================
\* The event subscriptions (manager.rs, subscribe_events and emit_event):
\* event_senders is a Vec of the senders of unbounded channels, one per
\* subscription; the receiver of each is in the hands of the subscriber, who
\* receives from it or drops it.  Both functions run their body under the
\* event_senders lock without an await inside, so each is one step; an
\* emission is the step in which emit_event, holding that lock, sends the
\* event.  Events are named by the number of their emission.
\* ====================================================================

\* Everything beside the subscriptions.
offEv == <<port, is_connected, cancel_token, lock, ports_lock, auto, rx, dp,
           queue, pc, op, ch, ret, acc, n, dirVars, codec, wire, lk>>

\* subscribe_events(): a new channel; its sender is pushed, its receiver
\* returned.
Subscribe ==
    /\ nsubs < MaxSubs
    /\ nsubs' = nsubs + 1
    /\ senders' = Append(senders, nsubs + 1)
    /\ alive' = [alive EXCEPT ![nsubs + 1] = TRUE]
    /\ since' = [since EXCEPT ![nsubs + 1] = nlog]
    /\ UNCHANGED <<inbox, got, nlog, em, offEv>>

\* The subscriber drops its receiver: what was not received is gone.
DropReceiver(s) ==
    /\ alive[s]
    /\ alive' = [alive EXCEPT ![s] = FALSE]
    /\ inbox' = [inbox EXCEPT ![s] = <<>>]
    /\ UNCHANGED <<senders, got, since, nsubs, nlog, em, offEv>>

\* The subscriber receives the oldest event of its channel.
Recv(s) ==
    /\ alive[s]
    /\ inbox[s] # <<>>
    /\ got' = [got EXCEPT ![s] = Append(@, Head(inbox[s]))]
    /\ inbox' = [inbox EXCEPT ![s] = Tail(@)]
    /\ UNCHANGED <<senders, alive, since, nsubs, nlog, em, offEv>>

\* sender.send(event).is_ok(): the receiver of the channel exists.
Sends(s) == alive[s]

\* Mutant: the event goes in front of what the channel holds.
QueuedFirst(q, e) == <<e>> \o q

\* What send() makes of the content q of an unbounded channel.
Queued(q, e) == Append(q, e)

\* Mutant: the loop over the senders ends at the first failed send.
RECURSIVE VisitedUntilFailure(_)
VisitedUntilFailure(list) ==
    IF list = <<>> THEN <<>>
    ELSE IF Sends(Head(list)) THEN <<Head(list)>> \o VisitedUntilFailure(Tail(list))
    ELSE <<>>

\* `for sender in senders.drain(..)`: every sender of the Vec, in its order.
Visited(list) == list

\* emit_event(event): the event is sent on every sender; the senders whose
\* send succeeded make the new Vec, in the old order.
Emit ==
    /\ nlog < MaxEvents
    /\ nlog' = nlog + 1
    /\ inbox' = [s \in Subs |->
                   IF s \in Elems(Visited(senders)) /\ Sends(s)
                   THEN Queued(inbox[s], nlog + 1) ELSE inbox[s]]
    /\ senders' = SelectSeq(Visited(senders), Sends)
    /\ UNCHANGED <<alive, got, since, nsubs, em, offEv>>

EvNext ==
    \/ Subscribe
    \/ \E s \in Subs : DropReceiver(s)
    \/ \E s \in Subs : Recv(s)
    \/ Emit

EvSpec == RegInit /\ [][EvNext]_vars

\* --------------------------------------------------------------------
\* emit_event sender by sender.  The caller of emit_event has its event
\* (numbered as it is made), waits for the event_senders lock, and under it
\* drains the Vec: one send per sender, the senders whose send succeeded
\* collected in active_senders, which becomes the Vec before the lock is
\* dropped.  Subscribers receive and drop their receivers meanwhile.
\*   lock  the holder of event_senders, or Free
\*   by    the emitter of each event, by number
\*   at    [Emitters -> pc, ev (the event), left (senders not yet visited),
\*          active (active_senders)]
\* --------------------------------------------------------------------

\* emit_event(event) is called: the event exists, the lock is awaited.
EmitCall(e) ==
    /\ em.at[e].pc = "idle"
    /\ nlog < MaxEvents
    /\ nlog' = nlog + 1
    /\ em' = [em EXCEPT !.at[e] = [NoEmit EXCEPT !.pc = "lock", !.ev = nlog + 1],
                        !.by = Append(@, e)]
    /\ UNCHANGED <<senders, alive, inbox, got, since, nsubs, offEv>>

\* Mutant: the sends start without the event_senders lock.
EmitLockNoWait(e) ==
    /\ em.at[e].pc = "lock"
    /\ em' = [em EXCEPT !.lock = e,
                        !.at[e] = [@ EXCEPT !.pc = "send", !.left = senders]]
    /\ UNCHANGED <<senders, alive, inbox, got, since, nsubs, nlog, offEv>>

\* self.event_senders.lock().await returns; senders.drain(..) starts.
EmitLock(e) ==
    /\ em.at[e].pc = "lock"
    /\ em.lock = Free
    /\ em' = [em EXCEPT !.lock = e,
                        !.at[e] = [@ EXCEPT !.pc = "send", !.left = senders]]
    /\ UNCHANGED <<senders, alive, inbox, got, since, nsubs, nlog, offEv>>

\* One turn of the loop: sender.send(event.clone()); on Ok the sender goes
\* to active_senders.
EmitSend(e) ==
    /\ em.at[e].pc = "send"
    /\ em.at[e].left # <<>>
    /\ LET s == Head(em.at[e].left)
       IN  /\ inbox' = [inbox EXCEPT ![s] = IF Sends(s)
                                            THEN Queued(@, em.at[e].ev) ELSE @]
           /\ em' = [em EXCEPT !.at[e].left = Tail(@),
                               !.at[e].active = IF Sends(s) THEN Append(@, s)
                                                ELSE @]
    /\ UNCHANGED <<senders, alive, got, since, nsubs, nlog, offEv>>

\* *senders = active_senders; the guard is dropped.
EmitReturn(e) ==
    /\ em.at[e].pc = "send"
    /\ em.at[e].left = <<>>
    /\ senders' = em.at[e].active
    /\ em' = [em EXCEPT !.lock = Free, !.at[e] = NoEmit]
    /\ UNCHANGED <<alive, inbox, got, since, nsubs, nlog, offEv>>

\* subscribe_events() gets the event_senders lock.
SubscribeLocked == em.lock = Free /\ Subscribe

EmitNext ==
    \/ SubscribeLocked
    \/ \E s \in Subs : DropReceiver(s)
    \/ \E s \in Subs : Recv(s)
    \/ \E e \in Emitters :
          EmitCall(e) \/ EmitLock(e) \/ EmitSend(e) \/ EmitReturn(e)

EmitSpec == RegInit /\ [][EmitNext]_vars


\* ====================================================================
\* The Modbus RTU codec (src/src/serial/modbus.rs): ModbusFrame::to_bytes
\* and ModbusFrame::from_bytes.  A byte is a number in 0..255, a u16 a
\* number in 0..65535; the bit operations of the code are written with
\* division and remainder.  The checksum is CRC-16/MODBUS of the `crc`
\* crate (reflected, table driven); the entries of its table are computed
\* here bit by bit (shift right, xor with the reflected polynomial).
\* ====================================================================

\* Slave addresses, function codes (with the exception bit clear and set)
\* and payload bytes of the frames that are built.
Addresses == {1, 247}
Functions == {3, 127, 128, 131}
PayloadBytes == {0, 2, 255}
\* Bytes of the strings that come from the port as they are.
RawBytes == {0, 1, 128}

\* Every Vec<u8> over B of at most k bytes.
SeqsUpTo(B, k) == UNION {[1..i -> B] : i \in 0..k}

\* Bit i of a ^ b, in its place.
XorBit(a, b, i) == (((a \div (2 ^ i)) + (b \div (2 ^ i))) % 2) * (2 ^ i)

\* a ^ b on u16.
Xor(a, b) ==
    XorBit(a, b, 0) + XorBit(a, b, 1) + XorBit(a, b, 2) + XorBit(a, b, 3)
    + XorBit(a, b, 4) + XorBit(a, b, 5) + XorBit(a, b, 6) + XorBit(a, b, 7)
    + XorBit(a, b, 8) + XorBit(a, b, 9) + XorBit(a, b, 10) + XorBit(a, b, 11)
    + XorBit(a, b, 12) + XorBit(a, b, 13) + XorBit(a, b, 14) + XorBit(a, b, 15)

\* One bit of the reflected CRC: shift right, xor the polynomial if a one
\* fell out.
CrcShift(crc) ==
    IF crc % 2 = 1 THEN Xor(crc \div 2, CrcPoly) ELSE crc \div 2

\* The lookup table of the crate: entry i is i after eight shifts.
CrcTable ==
    [i \in 0..255 |->
        CrcShift(CrcShift(CrcShift(CrcShift(
            CrcShift(CrcShift(CrcShift(CrcShift(i))))))))]

\* digest.update(..), byte by byte:
\* crc = table[(crc ^ byte) & 0xFF] ^ (crc >> 8).
\* (The register is a u16; testing that first has it evaluated before the
\* next byte is taken.)
RECURSIVE CrcUpdate(_, _)
CrcUpdate(crc, bytes) ==
    IF crc \in 0..65535 /\ bytes # <<>>
    THEN CrcUpdate(Xor(CrcTable[Xor(crc % 256, Head(bytes))], crc \div 256),
                   Tail(bytes))
    ELSE crc

\* fn calculate_crc: digest(), update with the address, the function code
\* and the data, finalize (no output xor).
calculate_crc(f) ==
    CrcUpdate(CrcUpdate(CrcUpdate(CrcInit, <<f.slave_address>>),
                        <<f.function_code>>), f.data)

\* Mutant: the CRC is pushed high byte first.
ToBytesCrcBigEndian(f) ==
    <<f.slave_address, f.function_code>> \o f.data
        \o <<calculate_crc(f) \div 256, calculate_crc(f) % 256>>

\* fn to_bytes: address, function code, data, then (crc & 0xFF) and
\* (crc >> 8).
to_bytes(f) ==
    <<f.slave_address, f.function_code>> \o f.data
        \o <<calculate_crc(f) % 256, calculate_crc(f) \div 256>>

\* Mutant: the length check lets three bytes through.
TooShortBelowThree(bytes) == Len(bytes) < 3

\* from_bytes: `if bytes.len() < Self::MIN_FRAME_LENGTH`.
TooShort(bytes) == Len(bytes) < MIN_FRAME_LENGTH

\* from_bytes: bytes.split_at(bytes.len() - 2), the first part ...
FrameBytes(bytes) == SubSeq(bytes, 1, Len(bytes) - 2)

\* ... and u16::from_le_bytes of the second.
ReceivedCrc(bytes) == bytes[Len(bytes) - 1] + 256 * bytes[Len(bytes)]

\* from_bytes: digest_with_initial(0xFFFF) over frame_bytes.
CalcCrc(bytes) == CrcUpdate(CrcInit, FrameBytes(bytes))

\* `frame_bytes[1] & 0x80 != 0`
IsException(function_code) == (function_code \div ExceptionBit) % 2 = 1

\* Mutant: the error code of an exception response is not read.
ExceptionErrorNone(frame_bytes) == 0

\* `if frame_bytes.len() > 2 { frame_bytes[2] } else { 0 }`
ExceptionError(frame_bytes) ==
    IF Len(frame_bytes) > 2 THEN frame_bytes[3] ELSE 0

\* from_bytes after the CRC check: the exception check, then Ok(Self {..}).
Parsed(frame_bytes) ==
    IF IsException(frame_bytes[2])
    THEN [tag |-> "ExceptionResponse",
          code |-> frame_bytes[2] % ExceptionBit,
          error |-> ExceptionError(frame_bytes)]
    ELSE [tag |-> "Ok",
          slave_address |-> frame_bytes[1],
          function_code |-> frame_bytes[2],
          data |-> SubSeq(frame_bytes, 3, Len(frame_bytes))]

\* The Err of a failed CRC check.
CrcMismatch(bytes) ==
    [tag |-> "CrcMismatch", calculated |-> CalcCrc(bytes),
     received |-> ReceivedCrc(bytes)]

\* The Err of the length check.
InvalidLength(bytes) ==
    [tag |-> "InvalidLength", expected |-> MIN_FRAME_LENGTH,
     actual |-> Len(bytes)]

\* Mutant: the exception check comes before the CRC check.
FromBytesExceptionFirst(bytes) ==
    IF TooShort(bytes) THEN InvalidLength(bytes)
    ELSE IF IsException(FrameBytes(bytes)[2]) THEN Parsed(FrameBytes(bytes))
    ELSE IF CalcCrc(bytes) # ReceivedCrc(bytes) THEN CrcMismatch(bytes)
    ELSE Parsed(FrameBytes(bytes))

\* fn from_bytes: the length check, the CRC check, the exception check, Ok.
from_bytes(bytes) ==
    IF TooShort(bytes) THEN InvalidLength(bytes)
    ELSE IF CalcCrc(bytes) # ReceivedCrc(bytes) THEN CrcMismatch(bytes)
    ELSE Parsed(FrameBytes(bytes))

\* Bit b of byte x inverted.
FlipBit(x, b) ==
    IF (x \div (2 ^ b)) % 2 = 1 THEN x - 2 ^ b ELSE x + 2 ^ b

\* Everything beside the codec.
offCodec == <<port, is_connected, cancel_token, lock, ports_lock, auto, rx, dp,
              queue, pc, op, ch, ret, acc, n, dirVars, evVars, wire, lk>>

\* ModbusFrame::new(slave_address, function_code, data)
FrameNew(a, f, d) ==
    /\ codec.stage = "new"
    /\ codec' = [codec EXCEPT
                   !.stage = "frame",
                   !.frame = [slave_address |-> a, function_code |-> f,
                              data |-> d]]
    /\ UNCHANGED offCodec

\* frame.to_bytes()
ToBytes ==
    /\ codec.stage = "frame"
    /\ codec' = [codec EXCEPT !.stage = "bytes", !.how = "encoded",
                              !.bytes = to_bytes(codec.frame)]
    /\ UNCHANGED offCodec

\* The line inverts bit b of byte i of an encoded frame.
Corrupt(i, b) ==
    /\ codec.stage = "bytes"
    /\ codec.how = "encoded"
    /\ i \in 1..Len(codec.bytes)
    /\ codec' = [codec EXCEPT !.how = "flipped", !.at = i,
                              !.bytes[i] = FlipBit(@, b)]
    /\ UNCHANGED offCodec

\* Bytes arrive that no to_bytes() made.
Received(raw) ==
    /\ codec.stage = "new"
    /\ codec' = [codec EXCEPT !.stage = "bytes", !.how = "raw", !.bytes = raw]
    /\ UNCHANGED offCodec

\* ModbusFrame::from_bytes(&bytes)
FromBytes ==
    /\ codec.stage = "bytes"
    /\ codec' = [codec EXCEPT !.stage = "done",
                              !.result = from_bytes(codec.bytes)]
    /\ UNCHANGED offCodec

CodecNext ==
    \/ \E a \in Addresses, f \in Functions, d \in SeqsUpTo(PayloadBytes, MaxPayload) :
         FrameNew(a, f, d)
    \/ ToBytes
    \/ \E i \in 1..(MaxPayload + MIN_FRAME_LENGTH), b \in 0..7 : Corrupt(i, b)
    \/ \E raw \in SeqsUpTo(RawBytes, MaxRaw) : Received(raw)
    \/ FromBytes

CodecSpec == RegInit /\ [][CodecNext]_vars

\* ====================================================================
\* The serial line under send_modbus_command (base.rs 197-271) on an
\* opened transaction-only Channel: one transaction after the other (the
\* port lock), the device answering each request with some bytes, the
\* input buffer of the port between them.  A byte is written as the
\* number of the transaction whose request the device sent it for.
\*   pc        "idle" / "read" / "closed"   no transaction / the read loop
\*             runs / the line is gone (a read gave Ok(0) or Err)
\*   txn       the number of the last transaction started
\*   owed      the bytes the device has still to send, in their order
\*   buf       the bytes that arrived and were not read
\*   response  the Vec the read loop has filled so far
\*   ret, data what the last transaction returned
\* ====================================================================

\* Everything beside the line.
offWire == <<port, is_connected, cancel_token, lock, ports_lock, auto, rx, dp,
             queue, pc, op, ch, ret, acc, n, dirVars, evVars, codec, lk>>

\* k copies of x.
Repeat(x, k) == [i \in 1..k |-> x]

\* The transaction returns r with the bytes d; the line goes on (next =
\* "idle") or is gone (next = "closed").
WireReturn(r, d, next) ==
    [wire EXCEPT !.pc = next, !.ret = r, !.data = d, !.response = <<>>]

\* send_modbus_command: port.write_all(command) went out (the input buffer
\* is left as it is), `response = Vec::new()`; the device will answer the
\* request with len bytes.
WireWrite(len) ==
    /\ wire.pc = "idle"
    /\ wire.txn < MaxTxn
    /\ wire' = [wire EXCEPT !.pc = "read", !.txn = @ + 1,
                            !.owed = @ \o Repeat(wire.txn + 1, len),
                            !.response = <<>>, !.ret = "none", !.data = <<>>]
    /\ UNCHANGED offWire

\* A byte of the device arrives in the input buffer of the port.
WireArrives ==
    /\ wire.pc # "closed"
    /\ wire.owed # <<>>
    /\ wire' = [wire EXCEPT !.owed = Tail(@), !.buf = @ \o <<Head(wire.owed)>>]
    /\ UNCHANGED offWire

\* port.read(&mut buffer) returns the first k bytes of the input buffer:
\* response.extend_from_slice, `if n >= 4 { break }` and Ok(response).
WireRead(k) ==
    /\ wire.pc = "read"
    /\ k \in 1..Len(wire.buf)
    /\ Len(wire.response) + k <= MaxAcc
    /\ LET r == wire.response \o SubSeq(wire.buf, 1, k)
           w == [wire EXCEPT !.buf = SubSeq(@, k + 1, Len(@))]
       IN  wire' = IF FrameComplete(k, Len(r))
                   THEN [w EXCEPT !.pc = "idle", !.ret = "Ok", !.data = r,
                                  !.response = <<>>]
                   ELSE [w EXCEPT !.response = r]
    /\ UNCHANGED offWire

\* port.read returns Ok(0): Ok(response) with 4 bytes or more, else
\* Err("Connection closed").
WireReadEof ==
    /\ wire.pc = "read"
    /\ wire' = IF EofComplete(Len(wire.response))
               THEN WireReturn("Ok", wire.response, "closed")
               ELSE WireReturn("ConnectionClosed", <<>>, "closed")
    /\ UNCHANGED offWire

\* port.read returns Err(e).
WireReadError ==
    /\ wire.pc = "read"
    /\ wire' = WireReturn("ReadError", <<>>, "closed")
    /\ UNCHANGED offWire

\* time::timeout(timeout, ..) elapses: Err("Response timeout"); what was
\* read is dropped, what was not read stays where it is.
WireTimeout ==
    /\ wire.pc = "read"
    /\ wire' = WireReturn("Timeout", <<>>, "idle")
    /\ UNCHANGED offWire

WireNext ==
    \/ \E len \in 1..MaxResp : WireWrite(len)
    \/ WireArrives
    \/ \E k \in 1..MaxRead : WireRead(k)
    \/ WireReadEof
    \/ WireReadError
    \/ WireTimeout

WireSpec == RegInit /\ [][WireNext]_vars

\* ====================================================================
\* The locks.  Every operation is reduced to the locks it takes and drops,
\* in the order of its code: Acq(l) is `l.lock().await`, Rel(l) the end of
\* the guard's scope.  The spawned open() / close() / send() calls that
\* open_all, close_all and send_data_to_all join are written as taken by
\* the joining task, since it waits for them with the map locked.
\*   held  [LockNames -> a task or Free]
\*   todo  [LockTasks -> the lock steps left of the operation in progress]
\* ====================================================================
Acq(l) == [op |-> "acq", l |-> l]
Rel(l) == [op |-> "rel", l |-> l]

\* emit_event: event_senders is locked for the sends (unbounded, they do
\* not wait) and for nothing else.
EmitLocks == <<Acq("event_senders"), Rel("event_senders")>>

\* subscribe_events
SubscribeLocks == <<Acq("event_senders"), Rel("event_senders")>>

\* Mutant: add_task_port is called with the map locked.
AddTaskPortLocksUnderMap ==
    <<Acq("ports"), Acq("task_ports")>> \o EmitLocks
        \o <<Rel("task_ports"), Rel("ports")>>

\* add_task_port: task_ports, then emit_event under it.
AddTaskPortLocks ==
    <<Acq("task_ports")>> \o EmitLocks \o <<Rel("task_ports")>>

\* add_port, add_scpi_port, get_port: the map alone.
MapLocks == <<Acq("ports"), Rel("ports")>>

\* remove_port (cancel_tasks -> close), open_all, close_all,
\* send_data_to_all: the map, and under it the port of a Channel.
MapPortLocks == <<Acq("ports"), Acq("port"), Rel("port"), Rel("ports")>>

\* open, close, send, send_modbus_command on a Channel from get_port; one
\* iteration of the receive task (the guard lives across the read, the
\* queue send and the sleep, none of which waits for a lock).
PortLocks == <<Acq("port"), Rel("port")>>

\* The monitoring task: step 2 reads the keys under the map lock, step 3
\* locks task_ports for the rest of the iteration ...
MonBeginLocks == MapLocks \o <<Acq("task_ports")>>

\* ... under which it runs, per port: 3.1 emit; 3.2 emit and remove_port;
\* 3.3 add_scpi_port and emit; status: get_port and emit; at last
\* open_all; and the guard is dropped at the end of the iteration.
MonInnerLocks ==
    {EmitLocks, EmitLocks \o MapPortLocks, MapLocks \o EmitLocks,
     MapPortLocks, <<Rel("task_ports")>>}

\* The locks task t holds.
HeldBy(t) == {l \in LockNames : lk.held[l] = t}

\* What task t can do next when it is in no operation.
LockScripts(t) ==
    IF t = Monitor
    THEN IF HeldBy(t) = {} THEN {MonBeginLocks} ELSE MonInnerLocks
    ELSE IF t = RxTask THEN {PortLocks}
    ELSE {SubscribeLocks, AddTaskPortLocks, MapLocks, MapPortLocks, PortLocks}

\* Everything beside the locks.
offLocks == <<port, is_connected, cancel_token, lock, ports_lock, auto, rx, dp,
              queue, pc, op, ch, ret, acc, n, dirVars, evVars, codec, wire>>

\* Task t starts an operation.
LockBegin(t, s) ==
    /\ lk.todo[t] = <<>>
    /\ s \in LockScripts(t)
    /\ lk' = [lk EXCEPT !.todo[t] = s]
    /\ UNCHANGED offLocks

\* l.lock().await returns: the lock is free and becomes t's.
LockAcquire(t) ==
    /\ lk.todo[t] # <<>>
    /\ Head(lk.todo[t]).op = "acq"
    /\ lk.held[Head(lk.todo[t]).l] = Free
    /\ lk' = [lk EXCEPT !.held[Head(lk.todo[t]).l] = t, !.todo[t] = Tail(@)]
    /\ UNCHANGED offLocks

\* The guard is dropped.
LockRelease(t) ==
    /\ lk.todo[t] # <<>>
    /\ Head(lk.todo[t]).op = "rel"
    /\ lk' = [lk EXCEPT !.held[Head(lk.todo[t]).l] = Free, !.todo[t] = Tail(@)]
    /\ UNCHANGED offLocks

LockNext ==
    \E t \in LockTasks :
        \/ \E s \in LockScripts(t) : LockBegin(t, s)
        \/ LockAcquire(t)
        \/ LockRelease(t)

LockSpec == RegInit /\ [][LockNext]_vars

\* ---------------------------------------------------------------- claims
\* Positions at which a caller is about to write to or read from the port.
IoStates == {"send_write", "txn_write", "txn_read"}

InIo(p) == pc[p] \in IoStates

\* Caller p took this step (every step changes the locals of one caller at
\* most).
Changed(p) ==
    <<pc[p], op[p], ch[p], ret[p], acc[p], n[p]>>
        # <<pc'[p], op'[p], ch'[p], ret'[p], acc'[p], n'[p]>>

\* C1: a caller that is between the start of its request write and the end
\* of its response read (or inside send()'s write) holds the port lock, so no
\* two callers of one Channel are ever there at the same time: the writes and
\* reads of two calls cannot interleave.
C1_Serialized ==
    /\ \A p \in Callers : InIo(p) => lock[ch[p]] = p
    /\ \A p, q \in Callers :
         (p # q /\ ch[p] = ch[q]) => ~(InIo(p) /\ InIo(q))

\* One transaction is reading its response while another transaction on the
\* same Channel has passed the fast path and waits for the lock.
C1_Witness ==
    \E p, q \in Callers :
        /\ p # q
        /\ ch[p] = ch[q]
        /\ pc[p] = "txn_read"
        /\ acc[p] > 0
        /\ pc[q] = "txn_lock"

\* C2 as stated: in every reachable state, connected implies handle present.
C2_Original ==
    \A c \in Ports : is_connected[c] => port[c] = "Some"

\* A task is between dropping the handle and clearing the flag, holding the
\* port lock: close() / cancel_tasks(), or the receive task after a
\* zero-length read or a read error.
InDisconnectWindow(c) ==
    \/ \E p \in Callers : pc[p] = "close_store" /\ ch[p] = c /\ lock[c] = p
    \/ rx[c] = "mark" /\ lock[c] = RxTask

\* C2 amended: connected implies handle present in every state except while
\* a task is inside that window; in particular whenever the port lock is free.
C2_Amended ==
    \A c \in Ports :
        (is_connected[c] /\ ~InDisconnectWindow(c)) => port[c] = "Some"

\* A connected Channel with its handle, the receive task reading from it and
\* a close() behind it.
C2_Witness ==
    \E c \in Ports :
        /\ is_connected[c]
        /\ port[c] = "Some"
        /\ rx[c] = "read"
        /\ \E p \in Callers : op[p] = "close" /\ pc[p] = "idle"

\* C3: send() and send_modbus_command() pass the fast path only with the flag
\* set, reach a write or a read only with the handle present and the lock
\* held, and return NotOpen, touching nothing, when the handle turns out to be
\* absent once they hold the lock.
C3_NoIoWhenClosed ==
    /\ [](\A p \in Callers :
            InIo(p) => (port[ch[p]] = "Some" /\ lock[ch[p]] = p))
    /\ [][\A p \in Callers :
            /\ (pc[p] = "idle" /\ pc'[p] \in {"send_lock", "txn_lock"})
                   => is_connected[ch'[p]]
            /\ (pc[p] = "idle" /\ pc'[p] = "idle" /\ Changed(p)
                  /\ op'[p] \in {"send", "txn"})
                   => (~is_connected[ch'[p]] /\ ret'[p] = "NotOpen"
                       /\ UNCHANGED chanVars)
            /\ (pc[p] \in {"send_lock", "txn_lock"} /\ pc'[p] # pc[p]
                  /\ port[ch[p]] = "None")
                   => (pc'[p] = "idle" /\ ret'[p] = "NotOpen"
                       /\ UNCHANGED chanVars)]_vars

\* A call passed the fast path, then the Channel was closed before the call
\* got the lock.
C3_Witness ==
    \E p \in Callers :
        /\ pc[p] \in {"send_lock", "txn_lock"}
        /\ port[ch[p]] = "None"
        /\ ~is_connected[ch[p]]
        /\ lock[ch[p]] = Free

\* C4 as stated: a transaction is over as soon as its response holds a
\* minimum frame, so none is still reading with that many bytes.
C4_ReturnsAtMinFrame ==
    \A p \in Callers : pc[p] = "txn_read" => acc[p] < MinFrame

\* The step in which a transaction's read returns Ok(0).
EofStep(p) == pc[p] = "txn_read" /\ n'[p] = 0

\* C5 as stated: a zero-length read fails with ConnectionClosed when nothing
\* was accumulated and succeeds with the accumulated bytes otherwise.
C5_Original ==
    [][\A p \in Callers :
         EofStep(p) =>
            /\ pc'[p] = "idle"
            /\ acc'[p] = acc[p]
            /\ ret'[p] = IF acc[p] = 0 THEN "ConnectionClosed" ELSE "Ok"]_vars

\* C5 amended: a zero-length read fails with ConnectionClosed when fewer than
\* 4 bytes were accumulated (0, 1, 2 or 3) and succeeds with the accumulated
\* bytes when at least 4 were.
C5_Amended ==
    [][\A p \in Callers :
         EofStep(p) =>
            /\ pc'[p] = "idle"
            /\ acc'[p] = acc[p]
            /\ ret'[p] = IF acc[p] < MinFrame THEN "ConnectionClosed" ELSE "Ok"]_vars

\* A transaction ended by a zero-length read after 4 or more bytes that came
\* in reads of fewer than 4 bytes each.
C5_Witness ==
    \E p \in Callers :
        /\ pc[p] = "idle"
        /\ op[p] = "txn"
        /\ n[p] = 0
        /\ acc[p] >= MinFrame
        /\ ret[p] = "Ok"

\* Results with which send() and send_modbus_command() fail after the lock
\* was taken.
IoFailures == {"WriteFailed", "Timeout", "ConnectionClosed", "ReadError"}

\* C6: the step in which send() or a transaction fails leaves the flag, the
\* handle and the token as they are and frees the port lock; the flag goes
\* from true to false only in a step of close() / cancel_tasks() or of the
\* receive task.
C6_FailureFrame ==
    [][/\ \A p \in Callers :
            (InIo(p) /\ pc'[p] = "idle" /\ ret'[p] \in IoFailures)
                => /\ UNCHANGED <<port, is_connected, cancel_token>>
                   /\ lock'[ch[p]] = Free
       /\ \A c \in Ports :
            (is_connected[c] /\ ~is_connected'[c])
                => \/ \E p \in Callers :
                        /\ pc[p] = "close_store"
                        /\ pc'[p] # "close_store"
                        /\ ch[p] = c
                        /\ op[p] \in {"close", "cancel"}
                   \/ rx[c] \in {"mark", "send"} /\ rx'[c] # rx[c]]_vars

\* A transaction failed, the Channel is still connected with its handle, and
\* a later transaction of another caller holds the lock and reads.
C6_Witness ==
    \E p, q \in Callers :
        /\ p # q
        /\ ch[p] = ch[q]
        /\ pc[p] = "idle"
        /\ op[p] = "txn"
        /\ ret[p] \in IoFailures
        /\ pc[q] = "txn_read"
        /\ is_connected[ch[p]]
        /\ port[ch[p]] = "Some"

\* C7: open() acquires an OS handle only when the slot is empty; on a present
\* handle it returns Ok with the handle untouched and the flag true.
C7_OpenIdempotent ==
    [][\A p \in Callers :
         /\ (pc[p] = "idle" /\ pc'[p] = "open_store")
                => (port[ch'[p]] = "None" /\ port'[ch'[p]] = "Some")
         /\ (pc[p] = "idle" /\ pc'[p] = "idle" /\ Changed(p)
               /\ op'[p] = "open" /\ port[ch'[p]] = "Some")
                => /\ ret'[p] = "Ok"
                   /\ port' = port
                   /\ is_connected'[ch'[p]]]_vars

\* Two callers have each had open() return Ok on the same Channel, which is
\* connected with its handle.
C7_Witness ==
    \E p, q \in Callers :
        /\ p # q
        /\ ch[p] = ch[q]
        /\ pc[p] = "idle" /\ op[p] = "open" /\ ret[p] = "Ok"
        /\ pc[q] = "idle" /\ op[q] = "open" /\ ret[q] = "Ok"
        /\ port[ch[p]] = "Some"
        /\ is_connected[ch[p]]

\* C8 as stated: while an open() that acquired the handle has not finished
\* its initialization, the flag is not yet true.
C8_Original ==
    \A p \in Callers : pc[p] = "open_init" => ~is_connected[ch[p]]

\* C8 amended: open() sets the flag right after it stored the handle and
\* releases the lock, before the initialization runs; the initialization cannot fail, so
\* such an open() returns Ok leaving handle, flag and token as they are; an
\* open() that returns an error leaves the handle absent and the flag false.
C8_Amended ==
    [][\A p \in Callers :
         /\ (pc[p] = "open_store" /\ pc'[p] # "open_store")
                => (pc'[p] = "open_init" /\ port'[ch[p]] = "Some"
                    /\ is_connected'[ch[p]] /\ lock'[ch[p]] = Free)
         /\ (pc[p] = "open_init" /\ pc'[p] # "open_init")
                => (pc'[p] = "idle" /\ ret'[p] = "Ok" /\ UNCHANGED chanVars)
         /\ (Changed(p) /\ pc'[p] = "idle" /\ op'[p] = "open"
               /\ ret'[p] \in {"OpenFailed", "InitFailed"})
                => (port'[ch'[p]] = "None" /\ ~is_connected'[ch'[p]])]_vars

\* open() returned Ok after its initialization, and another caller's is_open()
\* has returned true.
C8_Witness ==
    \E p, q \in Callers :
        /\ p # q
        /\ pc[p] = "idle" /\ op[p] = "open" /\ ret[p] = "Ok"
        /\ op[q] = "is_open" /\ ret[q] = "true" /\ ch[q] = ch[p]
        /\ port[ch[p]] = "Some"
        /\ is_connected[ch[p]]

C10_Cancel ==
    [][/\ \A p \in Callers :
            /\ (pc[p] = "cancel_signal" /\ pc'[p] = "idle")
                   => /\ port'[ch[p]] = "None"
                      /\ ~is_connected'[ch[p]]
                      /\ cancel_token'[ch[p]]
            /\ (Changed(p) /\ op'[p] = "cancel"
                  /\ port[ch'[p]] = "None" /\ ~is_connected[ch'[p]]
                  /\ cancel_token[ch'[p]])
                   => UNCHANGED <<port, is_connected, cancel_token>>
       /\ \A c \in Ports : cancel_token[c] => cancel_token'[c]]_vars

\* Two callers have each had cancel_tasks() return on the same Channel.
C10_Witness ==
    \E p, q \in Callers :
        /\ p # q
        /\ ch[p] = ch[q]
        /\ pc[p] = "idle" /\ op[p] = "cancel" /\ ret[p] = "Ok"
        /\ pc[q] = "idle" /\ op[q] = "cancel" /\ ret[q] = "Ok"
        /\ port[ch[p]] = "None"
        /\ ~is_connected[ch[p]]
        /\ cancel_token[ch[p]]

\* ------------------------------------------- claims about the registry
\* A registry call of caller u returns in this step.
Returns(u) == call[u].pc # "idle" /\ call'[u].pc = "idle"

\* Caller u makes a call in this step.
Calls(u) == call[u].pc = "idle" /\ call'[u] # call[u]

\* The Channel is closed: no handle, the flag false.
IsClosed(c) == c.handle = "None" /\ ~c.connected

\* C11 as stated: once the token of a registered Channel is cancelled (by
\* itself or through the root token), no step sets its connected flag to
\* true again.
C11_NeverReopened ==
    [][\A p \in DOMAIN ports \cap DOMAIN ports' :
         (Cancelled(ports[p]) /\ ~ports[p].connected) => ~ports'[p].connected]_vars

\* C12: an add (add_port or add_scpi_port) that gets the map lock with its
\* port registered returns AlreadyRegistered and leaves the map and every
\* Channel as they are; otherwise it returns Ok and the map has exactly one
\* more entry, a closed Channel whose token is a child of the root token
\* (cancelled exactly if the root is).  So of the adds of one port that wait
\* for the lock together, the first to get it succeeds and the others fail
\* while the entry stays.
C12_Add ==
    [][\A u \in Callers :
         (call[u].pc = "add_lock" /\ Returns(u)) =>
            LET p == call[u].arg IN
            IF p \in DOMAIN ports
            THEN /\ call'[u].ret = "AlreadyRegistered"
                 /\ ports' = ports
            ELSE /\ call'[u].ret = "Ok"
                 /\ DOMAIN ports' = DOMAIN ports \cup {p}
                 /\ \A q \in DOMAIN ports : ports'[q] = ports[q]
                 /\ IsClosed(ports'[p])
                 /\ ports'[p].child
                 /\ ~ports'[p].own
                 /\ Cancelled(ports'[p]) = root_cancel]_vars

\* add_port and add_scpi_port of the same port have both returned, one Ok,
\* the other AlreadyRegistered, and the Channel of the first, meanwhile
\* opened, is still the entry.
C12_Witness ==
    \E u, v \in Callers :
        /\ u # v
        /\ call[u].pc = "idle" /\ call[v].pc = "idle"
        /\ {call[u].op, call[v].op} = {"add_port", "add_scpi_port"}
        /\ call[u].arg = call[v].arg
        /\ call[u].ret = "Ok"
        /\ call[v].ret = "AlreadyRegistered"
        /\ call[u].arg \in DOMAIN ports
        /\ ports[call[u].arg].connected

\* C13: remove_port on a registered port takes exactly that entry out of the
\* map and returns its Channel, closed and with its own token cancelled; on
\* an unregistered port it returns None and changes nothing; no step of it
\* touches another Channel or the root token.
C13_Remove ==
    [][\A u \in Callers :
         /\ (Calls(u) /\ call'[u].op = "remove_port") =>
               LET p == call'[u].arg IN
               IF p \in DOMAIN ports
               THEN /\ call'[u].pc = "rm_cancel"
                    /\ call'[u].held = <<ports[p]>>
                    /\ DOMAIN ports' = DOMAIN ports \ {p}
                    /\ \A q \in DOMAIN ports' : ports'[q] = ports[q]
                    /\ root_cancel' = root_cancel
               ELSE /\ call'[u].pc = "idle"
                    /\ call'[u].ret = "None"
                    /\ UNCHANGED <<ports, root_cancel, task_ports, ports_lock>>
         /\ (call[u].pc = "rm_cancel" /\ Returns(u)) =>
               /\ call'[u].ret = "Some"
               /\ Len(call'[u].held) = 1
               /\ IsClosed(call'[u].held[1])
               /\ call'[u].held[1].own
               /\ call[u].arg \notin DOMAIN ports'
               /\ ports' = ports
               /\ root_cancel' = root_cancel]_vars

\* remove_port has returned a Channel; another port is still registered,
\* connected, with its token not cancelled.
C13_Witness ==
    \E u \in Callers : \E q \in DOMAIN ports :
        /\ call[u].pc = "idle"
        /\ call[u].op = "remove_port"
        /\ call[u].ret = "Some"
        /\ IsClosed(call[u].held[1]) /\ call[u].held[1].own
        /\ call[u].arg \notin DOMAIN ports
        /\ ports[q].connected
        /\ ~Cancelled(ports[q])

\* C14 as stated: close_all() cancels the root token before it closes a
\* Channel, and once it has returned, and as long as the caller makes no
\* other call, the root token is cancelled and every registered Channel is
\* closed, whatever the monitoring task still does.
C14_StaysClosed ==
    (call[User].op = "close_all" /\ call[User].pc = "idle")
        => /\ root_cancel
           /\ \A p \in DOMAIN ports : IsClosed(ports[p])

\* C15: the Vec of watched ports never holds a port twice and
\* PortAddedToMonitoring is emitted exactly once for each port in it (by
\* add_task_port or by the monitoring task), never for another; add_task_port
\* on a watched port, registered or not, changes nothing and emits nothing.
C15_WatchedOnce ==
    /\ [](/\ Cardinality(Elems(task_ports)) = Len(task_ports)
          /\ \A p \in PortIds :
                added[p] = IF p \in Elems(task_ports) THEN 1 ELSE 0)
    /\ [][(Calls(User) /\ call'[User].op = "add_task_port"
             /\ call'[User].arg \in Elems(task_ports))
            => UNCHANGED <<task_ports, added, cyc, ports>>]_vars

\* Two ports are watched, both events emitted once: the caller's last call is
\* add_task_port on the first, which is registered, and the monitoring task
\* has adopted the second in the cycle it is in.
C15_Witness ==
    \E p, q \in PortIds :
        /\ p # q
        /\ task_ports = <<p, q>>
        /\ added[p] = 1 /\ added[q] = 1
        /\ call[User].pc = "idle"
        /\ call[User].op = "add_task_port"
        /\ call[User].arg = p
        /\ p \in DOMAIN ports
        /\ cyc.ev["Added"][q] = 1

\* The events emitted since subscription s was made, in the order of their
\* emission.
EmittedSince(s) == [i \in 1..(nlog - since[s]) |-> since[s] + i]

\* C16: every subscriber whose receiver exists has its sender in the Vec,
\* once; an emission puts the event once into the channel of each of them,
\* wherever the senders of dropped receivers stand in the Vec, removes
\* exactly the senders of dropped receivers from the Vec, and gives the
\* dropped ones nothing.
C16_Delivery ==
    /\ [](/\ Cardinality(Elems(senders)) = Len(senders)
          /\ \A s \in Subs : alive[s] => s \in Elems(senders))
    /\ [][nlog' = nlog + 1 =>
            \A s \in Subs :
                IF alive[s]
                THEN /\ inbox'[s] = Append(inbox[s], nlog')
                     /\ s \in Elems(senders')
                ELSE /\ inbox'[s] = inbox[s]
                     /\ s \notin Elems(senders')]_vars

\* The first subscriber dropped its receiver and an emission has removed its
\* sender, which stood in front of the second's; the second subscribed
\* before the first emission and has got every event once.
C16_Witness ==
    /\ nsubs = 2
    /\ ~alive[1]
    /\ alive[2]
    /\ senders = <<2>>
    /\ since[2] = 0
    /\ nlog >= 2
    /\ got[2] \o inbox[2] = EmittedSince(2)

\* C17: what a subscriber has received and what waits in its channel are,
\* in this order, exactly the events emitted after its subscription: none
\* from before, none missing, none twice, in the order of emission; a
\* subscriber that dropped its receiver has received a prefix of them.
\* (An emission is the step in which emit_event holds the event_senders lock.)
C17_Fifo ==
    \A s \in Subs :
        /\ (s <= nsubs /\ alive[s]) => got[s] \o inbox[s] = EmittedSince(s)
        /\ (s <= nsubs /\ ~alive[s]) =>
              /\ Len(got[s]) <= nlog - since[s]
              /\ got[s] = SubSeq(EmittedSince(s), 1, Len(got[s]))

\* A subscriber that came after the first emission has received two later
\* events, and another subscriber was there from the start.
C17_Witness ==
    \E s, t \in Subs :
        /\ s # t
        /\ alive[s] /\ alive[t]
        /\ since[t] = 0
        /\ since[s] > 0
        /\ Len(got[s]) >= 2
        /\ Len(got[t]) > Len(got[s])

\* ------------------------------------ claims about the discovery cycle
\* The loops 3.1 and 3.2 of the iteration are behind the monitoring task.
PastRemoval == mon.pc \in {"readd", "status", "open_all", "oa_join", "done"}

\* The ports 3.2 has to remove in this iteration: in the keys of the map read
\* in step 2 and not in the OS list read in step 1.
Vanished == mon.ports_list \ mon.available

\* C18 as stated: a port that was registered when the cycle read the map and
\* is not in the cycle's OS list has had its PortRemovedFromSystem emitted
\* and is not registered when the cycle ends.
C18_GoneAtEnd ==
    mon.pc = "done" =>
        \A p \in Vanished : cyc.ev["Removed"][p] >= 1 /\ p \notin DOMAIN ports

\* C18, amended: for such a port (1) PortRemovedFromSystem has been emitted
\* once the loop 3.2 is over; (2) when the remove_port of 3.2 returns, the
\* Channel it took out of the map is closed with its own token cancelled and
\* the port is not registered; (3) from the emission to the end of the cycle
\* the port becomes registered again only by a caller's add_port returning
\* Ok, never by the cycle itself.
C18_Removed ==
    /\ [](PastRemoval => \A p \in Vanished : cyc.ev["Removed"][p] = 1)
    /\ [][(mon.pc = "rm_cancel" /\ mon'.pc # "rm_cancel") =>
            /\ IsClosed(mon'.held[1])
            /\ mon'.held[1].own
            /\ mon.at \notin DOMAIN ports']_vars
    /\ [][\A p \in PortIds :
            (/\ cyc.ev["Removed"][p] >= 1
             /\ p \notin DOMAIN ports
             /\ p \in DOMAIN ports')
            => /\ call[User].pc = "add_lock"
               /\ call[User].arg = p
               /\ call'[User].pc = "idle"
               /\ call'[User].ret = "Ok"]_vars

\* The cycle ends after 3.2 removed a registered port that the OS no longer
\* lists: the event is out, the Channel that was open is closed and
\* cancelled, and the port is not registered.
C18_Witness ==
    /\ mon.pc = "done"
    /\ \E p \in Vanished :
         /\ cyc.ev["Removed"][p] = 1
         /\ p \notin DOMAIN ports
         /\ mon.at = p
         /\ mon.held # <<>>
         /\ IsClosed(mon.held[1])
         /\ mon.held[1].own

\* The loop 3.3 of the iteration is behind the monitoring task.
PastReadd == mon.pc \in {"status", "open_all", "oa_join", "done"}

\* Port p was, for this iteration, watched (the clone of step 3), listed by
\* the OS (step 1) and not registered (the keys of step 2).
Lost(p) == p \in mon.snap /\ p \in mon.available /\ p \notin mon.ports_list

\* The step of 3.3 for port p: add_scpi_port(p, 9600) and the event.
ReaddStep(p) ==
    /\ mon.pc = "readd"
    /\ p \in mon.todo
    /\ IF mon'.pc = "readd" THEN mon'.todo = mon.todo \ {p}
       ELSE mon' # mon /\ mon.todo = {p}

\* C19: for a port that is watched, listed by the OS and not registered in
\* the snapshots of a cycle, the cycle emits exactly one of PortReconnected
\* and PortConnectionFailed, and for no other port either of them;
\* PortReconnected comes with the registration of the port as a closed
\* probe-only Channel under a child token, PortConnectionFailed with a
\* registration attempt that failed because the port was registered by then,
\* which leaves the map as it was.
C19_Reconnect ==
    /\ [](\A p \in PortIds :
            /\ cyc.ev["Reconnected"][p] + cyc.ev["Failed"][p] <= 1
            /\ cyc.ev["Reconnected"][p] + cyc.ev["Failed"][p] = 1 => Lost(p)
            /\ (PastReadd /\ Lost(p)) =>
                   cyc.ev["Reconnected"][p] + cyc.ev["Failed"][p] = 1)
    /\ [][\A p \in PortIds :
            /\ ReaddStep(p) =>
                  IF p \in DOMAIN ports
                  THEN /\ ports' = ports
                       /\ cyc'.ev["Failed"][p] = 1
                       /\ cyc'.ev["Reconnected"][p] = 0
                  ELSE /\ p \in DOMAIN ports'
                       /\ ports'[p] = NewChannel(FALSE)
                       /\ ~ports'[p].auto_receive
                       /\ cyc'.ev["Reconnected"][p] = 1
                       /\ cyc'.ev["Failed"][p] = 0
            /\ (\/ cyc'.ev["Reconnected"][p] > cyc.ev["Reconnected"][p]
                \/ cyc'.ev["Failed"][p] > cyc.ev["Failed"][p]) => ReaddStep(p)]_vars

\* A cycle ends in which one lost port was registered again as a probe-only
\* Channel with its PortReconnected, and the registration of another failed
\* with its PortConnectionFailed because a caller's add_port came first.
C19_Witness ==
    /\ mon.pc = "done"
    /\ \E p, q \in PortIds :
         /\ Lost(p) /\ Lost(q)
         /\ cyc.ev["Reconnected"][p] = 1 /\ cyc.ev["Failed"][p] = 0
         /\ p \in DOMAIN ports /\ ~ports[p].auto_receive
         /\ cyc.ev["Failed"][q] = 1 /\ cyc.ev["Reconnected"][q] = 0
         /\ q \in DOMAIN ports /\ ports[q].auto_receive

\* The cycle has re-registered a port: an add_scpi_port of 3.3 returned Ok.
Reregistered == \E p \in PortIds : cyc.ev["Reconnected"][p] >= 1

\* Every loop of the iteration has emitted what it emits: 3.1 for the
\* registered ports that were not watched, 3.2 for the vanished ports, 3.3
\* for the lost ports; the status loop has no port left.
AllEmitted ==
    /\ mon.todo = {}
    /\ \A p \in mon.ports_list \ mon.snap : cyc.ev["Added"][p] = 1
    /\ \A p \in Vanished : cyc.ev["Removed"][p] = 1
    /\ \A p \in PortIds :
         Lost(p) => cyc.ev["Reconnected"][p] + cyc.ev["Failed"][p] = 1

\* C20: the monitoring task invokes open_all() at most once in a cycle; at
\* the end of the cycle it has invoked it once if the cycle re-registered
\* at least one port and not at all if it re-registered none; the invocation
\* comes when every loop of the cycle has emitted its events, and no event of
\* the cycle is emitted after it.
C20_OpenAllOnce ==
    /\ [](cyc.opens <= 1)
    /\ [](mon.pc = "done" => cyc.opens = IF Reregistered THEN 1 ELSE 0)
    /\ [][cyc'.opens > cyc.opens => (AllEmitted /\ cyc'.ev = cyc.ev)]_vars
    /\ [][(cyc.opens = 1 /\ mon'.pc # "sleep") => cyc'.ev = cyc.ev]_vars

\* A cycle ends that re-registered two ports, emitted their status and
\* invoked open_all() once.
C20_Witness ==
    /\ mon.pc = "done"
    /\ cyc.opens = 1
    /\ \A p \in PortIds : cyc.ev["Reconnected"][p] = 1 /\ cyc.ev["Status"][p] = 1

\* ------------------------------------ claims about the cancellation scopes
\* The Channels that exist: the entries of the map and the Channels a
\* remove_port in progress or returned has taken out of it.
Channels ==
    {ports[p] : p \in DOMAIN ports} \cup
    UNION {Elems(call[u].held) : u \in Callers}

\* C21: the token of every Channel made by add_port or add_scpi_port is a
\* child of the root token, so with the root token cancelled the token of
\* every Channel is cancelled, those still to be added included; the step of
\* remove_port that cancels the token of one Channel (cancel_tasks) leaves
\* the root token, the map with every other Channel's token, handle and
\* flag, and the Channels other calls hold as they were.
C21_Scopes ==
    /\ [](\A c \in Channels : c.child /\ (root_cancel => Cancelled(c)))
    /\ [][(~root_cancel /\ root_cancel') =>
            /\ \E u \in Callers : Calls(u) /\ call'[u].op = "close_all"
            /\ ports' = ports
            /\ \A p \in DOMAIN ports : ports[p].own = ports'[p].own]_vars
    /\ [][\A u \in Callers :
            (call[u].pc = "rm_cancel" /\ Returns(u)) =>
               /\ call'[u].held[1].own
               /\ root_cancel' = root_cancel
               /\ ports' = ports
               /\ \A v \in Callers \ {u} : call'[v] = call[v]]_vars

\* remove_port has cancelled the token of one Channel, which left the token
\* of the other alone: that one, made by add_scpi_port and still connected,
\* is cancelled only through the root token, which a close_all() in its
\* sleep has cancelled.
C21_Witness ==
    \E u, v \in Callers : \E q \in DOMAIN ports :
        /\ call[u].op = "remove_port" /\ call[u].pc = "idle"
        /\ call[u].ret = "Some"
        /\ call[u].held[1].own /\ call[u].held[1].auto_receive
        /\ call[v].op = "close_all" /\ call[v].pc = "ca_sleep"
        /\ root_cancel
        /\ ~ports[q].own /\ ~ports[q].auto_receive
        /\ ports[q].connected
        /\ Cancelled(ports[q])

\* C22 as stated, for the receive task: a check at the top of its loop that
\* is made with the token cancelled is the last thing the task does, so
\* that it locks the port, reads and forwards no more.
C22_StopsAtCheck ==
    [][\A c \in Ports :
         (rx[c] = "top" /\ cancel_token[c] /\ rx'[c] # rx[c]) => rx'[c] = "exit"]_vars

\* C23 as stated, for a Channel made by add_port with the root token
\* cancelled: its token is cancelled from the start and stays so, and its
\* receive task never gets bytes from a read of the port nor forwards them
\* to the processing task, whatever the callers do with the Channel.
C23_BornCancelled ==
    \A c \in Ports :
        /\ cancel_token[c]
        /\ rx[c] # "send"
        /\ queue[c] = 0

\* ------------------------------------------------ claims about the codec
\* The CRC of the nine bytes "123456789", the check value of CRC-16/MODBUS.
CrcCheckValue == CrcUpdate(CrcInit, <<49, 50, 51, 52, 53, 54, 55, 56, 57>>)

\* from_bytes has run on what to_bytes made of the frame, untouched.
DecodedEncoded == codec.stage = "done" /\ codec.how = "encoded"

\* C24: for every frame built with a function code whose exception bit is
\* clear, from_bytes(to_bytes(frame)) is Ok with the address, the function
\* code and the payload of the frame.
C24_RoundTrip ==
    (DecodedEncoded /\ ~IsException(codec.frame.function_code)) =>
        codec.result = [tag |-> "Ok",
                        slave_address |-> codec.frame.slave_address,
                        function_code |-> codec.frame.function_code,
                        data |-> codec.frame.data]

\* A frame with function code 0x7F and a payload of two bytes came back.
C24_Witness ==
    /\ DecodedEncoded
    /\ codec.frame.function_code = 127
    /\ Len(codec.frame.data) >= 2
    /\ codec.result.tag = "Ok"
    /\ codec.result.data = codec.frame.data

\* C25: from_bytes of an encoded frame in which one bit of the address, the
\* function code or the payload was inverted is CrcMismatch, also when the
\* bit is the exception bit of the function code.  (The checksum is
\* CRC-16/MODBUS: its check value is 0x4B37.)
C25_BitFlip ==
    /\ CrcCheckValue = 19255
    /\ (/\ codec.stage = "done"
        /\ codec.how = "flipped"
        /\ codec.at <= Len(codec.bytes) - 2)
       => codec.result.tag = "CrcMismatch"

\* The exception bit of function code 3 was inverted in a frame with a
\* payload: the bytes say 0x83 and from_bytes says CrcMismatch.
C25_Witness ==
    /\ codec.stage = "done"
    /\ codec.how = "flipped"
    /\ codec.at = 2
    /\ codec.frame.function_code = 3
    /\ codec.bytes[2] = 131
    /\ codec.frame.data # <<>>
    /\ codec.result.tag = "CrcMismatch"

\* C26: from_bytes of an encoded frame whose function code has the
\* exception bit set is ExceptionResponse, whatever the payload, the empty
\* one included; `code` is the function code without that bit, `error` the
\* first payload byte, 0 without one.
C26_Exception ==
    (DecodedEncoded /\ IsException(codec.frame.function_code)) =>
        /\ codec.result.tag = "ExceptionResponse"
        /\ codec.result.code = codec.frame.function_code - 128
        /\ codec.result.error =
              IF codec.frame.data = <<>> THEN 0 ELSE codec.frame.data[1]

\* The frame 0x83 with the payload <<2, ..>> came back as the exception 2 of
\* function 3.
C26_Witness ==
    /\ DecodedEncoded
    /\ codec.frame.function_code = 131
    /\ Len(codec.frame.data) >= 2
    /\ codec.frame.data[1] = 2
    /\ codec.result.tag = "ExceptionResponse"
    /\ codec.result.code = 3
    /\ codec.result.error = 2

\* C27: from_bytes is InvalidLength exactly on the inputs of fewer than four
\* bytes, whatever the bytes (and it is evaluated on them without reading a
\* byte that is not there).
C27_Length ==
    codec.stage = "done" =>
        /\ codec.result.tag = "InvalidLength" <=> Len(codec.bytes) < 4
        /\ codec.result.tag = "InvalidLength" =>
              /\ codec.result.expected = 4
              /\ codec.result.actual = Len(codec.bytes)

\* Three bytes from the port were refused for their length, whatever they
\* were.
C27_Witness ==
    /\ codec.stage = "done"
    /\ codec.how = "raw"
    /\ Len(codec.bytes) = 3
    /\ codec.bytes[2] = 128
    /\ codec.result = [tag |-> "InvalidLength", expected |-> 4, actual |-> 3]

\* ------------------------------------ claims about the layers together
\* C28: on a Channel made in auto-receive mode (its receive task was
\* started) no send_modbus_command gets as far as the port: none has
\* written its command and reads the response there.
C28_NoTransactionWithIngestion ==
    \A p \in Callers : auto[ch[p]] => pc[p] # "txn_read"

\* C29: no failure of an open or a send is lost on its way to the caller:
\* when open() failed on a Channel during open_all(), open_all() does not
\* return success; when send() failed on a Channel during
\* send_data_to_all(), send_data_to_all() does not return Ok; send_data on
\* an id that is not registered returns the not-found error.
C29_ErrorsReachCaller ==
    [][\A u \in Callers :
         /\ (/\ call[u].pc = "oa_join"
             /\ Returns(u)
             /\ \E q \in OpenTargets : ~ports'[q].connected)
            => call'[u].ret # "Ok"
         /\ (/\ call[u].pc = "sa_join"
             /\ Returns(u)
             /\ \E q \in DOMAIN ports : SendResults(ports[q]) = {"Err"})
            => call'[u].ret # "Ok"
         /\ (/\ Calls(u)
             /\ call'[u].op = "send_data"
             /\ call'[u].arg \notin DOMAIN ports)
            => (call'[u].pc = "idle" /\ call'[u].ret = "NotFound")]_vars

\* The monitoring task's iteration is over (its locals are still there).
CycleDone == mon.pc = "done"

\* C30 (as stated): at the end of an iteration every port of the iteration's
\* OS list is watched, and PortAddedToMonitoring was emitted in the
\* iteration for each of them that was not watched when it began.
C30_AvailableAdopted ==
    CycleDone =>
        \A p \in mon.available :
            /\ p \in Elems(task_ports)
            /\ p \notin mon.snap => cyc.ev["Added"][p] = 1

\* C30 (amended): at the end of an iteration every port that was a key of
\* the map in step 2 is watched, and PortAddedToMonitoring was emitted once
\* in the iteration for each of them that was not watched when it began;
\* the monitoring task puts no other port into the watched ports, listed by
\* the OS or not.
C30_RegisteredAdopted ==
    /\ [](CycleDone =>
            \A p \in PortIds :
                /\ p \in mon.ports_list => p \in Elems(task_ports)
                /\ cyc.ev["Added"][p] =
                      IF p \in mon.ports_list \ mon.snap THEN 1 ELSE 0)
    /\ [][\A p \in PortIds :
            (/\ task_lock = Monitor
             /\ p \notin Elems(task_ports)
             /\ p \in Elems(task_ports'))
            => (p \in mon.ports_list /\ p \notin mon.snap)]_vars

\* An iteration ends in which a registered port was adopted and a port that
\* the OS lists and nobody registered is still not watched.
C30_Witness ==
    /\ CycleDone
    /\ \E p, q \in PortIds :
         /\ p \in mon.ports_list \ mon.snap
         /\ p \in Elems(task_ports)
         /\ cyc.ev["Added"][p] = 1
         /\ q \in mon.available \ mon.ports_list
         /\ q \notin Elems(task_ports)
         /\ added[q] = 0

\* -------------------------------------------- claims about the status loop
\* The step of the status loop for port p: get_port(p) and, with a Channel,
\* the event.
StatusStep(p) ==
    /\ mon.pc = "status"
    /\ p \in mon.todo
    /\ IF mon'.pc = "status" THEN mon'.todo = mon.todo \ {p}
       ELSE mon' # mon /\ mon.todo = {p}

\* C31: the status loop of a cycle visits every port of the cycle's OS list
\* once, before the cycle's open_all(); the visit emits one PortStatusUpdate
\* if the port is registered then and none if it is not, and the event's
\* is_connected is the Channel's flag at the visit; nothing else emits a
\* PortStatusUpdate.
C31_Status ==
    /\ [](\A p \in PortIds :
            /\ cyc.ev["Status"][p] <= 1
            /\ cyc.ev["Status"][p] = 1 => p \in mon.available
            /\ p \in cyc.up => cyc.ev["Status"][p] = 1)
    /\ [][(mon.pc # "status" /\ mon'.pc = "status") =>
             (mon'.todo = mon'.available /\ cyc'.ev["Status"] = NoneEmitted.ev["Status"])]_vars
    /\ [][(mon.pc \in {"watch", "adopt", "removed", "rm_cancel", "readd"}
             /\ mon'.pc \in {"open_all", "done"}) =>
             mon'.available = {}]_vars
    /\ [][(mon.pc = "status" /\ mon' # mon) => \E p \in PortIds : StatusStep(p)]_vars
    /\ [][\A p \in PortIds :
            /\ StatusStep(p) =>
                  /\ cyc.opens = 0
                  /\ cyc'.ev["Status"][p] = IF p \in DOMAIN ports THEN 1 ELSE 0
                  /\ p \in cyc'.up <=> (p \in DOMAIN ports /\ ports[p].connected)
                  /\ \A q \in PortIds \ {p} :
                        /\ cyc'.ev["Status"][q] = cyc.ev["Status"][q]
                        /\ q \in cyc'.up <=> q \in cyc.up
            /\ (cyc'.ev["Status"][p] > cyc.ev["Status"][p] \/ p \in cyc'.up \ cyc.up)
                  => StatusStep(p)]_vars

\* A cycle ends that listed two ports: one was re-registered by the cycle
\* and reported not connected before the cycle's open_all() opened it, the
\* other was not registered at its visit and got no event.
C31_Witness ==
    /\ CycleDone
    /\ cyc.opens = 1
    /\ \E p, q \in mon.available :
         /\ cyc.ev["Reconnected"][p] = 1
         /\ cyc.ev["Status"][p] = 1
         /\ p \notin cyc.up
         /\ p \in DOMAIN ports /\ ports[p].connected
         /\ cyc.ev["Status"][q] = 0

Quiet == \A p \in Callers : pc[p] = "idle"

\* C33: the processing task only exits on cancellation; a send to the queue
\* fails only when that task has exited, and the receive task then stores
\* the flag false, leaves the handle in place, drops the port lock and has
\* exited, for good; it does not go on to another iteration.  A present
\* handle under a false flag, with no caller at work, is what only this
\* leaves behind.
C33_SendFailure ==
    /\ [](\A c \in Ports :
            /\ dp[c] = "exit" => cancel_token[c]
            /\ (Quiet /\ port[c] = "Some" /\ ~is_connected[c])
                  => (rx[c] = "exit" /\ dp[c] = "exit"))
    /\ [][\A c \in Ports :
            /\ (rx[c] = "send" /\ rx'[c] = "exit")
                  => /\ dp[c] = "exit"
                     /\ ~is_connected'[c]
                     /\ port[c] = "Some" /\ port'[c] = "Some"
                     /\ lock[c] = RxTask /\ lock'[c] = Free
            /\ (rx[c] = "send" /\ dp[c] = "exit" /\ rx'[c] # "send")
                  => rx'[c] = "exit"
            /\ (rx[c] = "send" /\ rx'[c] = "top")
                  => (dp[c] = "run" /\ queue'[c] = queue[c] + 1)
            /\ rx[c] = "exit" => rx'[c] = "exit"]_vars

\* The receive task has exited on a failed send: the handle is there, the
\* flag is false, the processing task is gone and no caller is at work.
C33_Witness ==
    \E c \in Ports :
        /\ Quiet
        /\ rx[c] = "exit"
        /\ dp[c] = "exit"
        /\ port[c] = "Some"
        /\ ~is_connected[c]
        /\ lock[c] = Free

\* ----------------------------------------------- claims about recovery
\* The receive task of the registered Channel p has dropped its handle; the
\* OS lists the port and the Channel's token is not cancelled.
LostListed(p) ==
    /\ p \in DOMAIN ports
    /\ ports[p].lost
    /\ ~Cancelled(ports[p])
    /\ p \in avail

\* The monitoring task is inside its open_all() and open() runs on the
\* Channel p.
MonOpens(p) == mon.pc = "oa_join" /\ p \in OpenTargets

\* C34: when the receive task of a registered Channel has made it
\* disconnected, then, unless the port leaves the OS list, the Channel
\* leaves the map or its token is cancelled, the monitoring task comes to
\* call open() on the Channel, with no call of a caller.
C34_Recovered ==
    \A p \in PortIds :
        LostListed(p) ~> (MonOpens(p) \/ ~LostListed(p))

\* ------------------------------------------------ claims about the locks
\* The monitoring task is at an await on port I/O: the joined open() calls
\* of its open_all(), or the cancel_tasks() of its remove_port (close()
\* waits for the Channel's port lock).
MonInPortIo == mon.pc \in {"oa_join", "rm_cancel"}

\* C35: the monitoring task does not hold the lock of the map while it
\* awaits port I/O, and no add_port / add_scpi_port of a caller waits for
\* the lock of the map while the monitoring task awaits port I/O with it.
C35_NoIoUnderMapLock ==
    /\ MonInPortIo => ports_lock # Monitor
    /\ \A u \in Callers :
         (MonInPortIo /\ ports_lock = Monitor) => call[u].pc # "add_lock"

\* ------------------------------------------------- claims about the line
\* C36: the bytes a transaction returns are bytes the device sent for the
\* request of that transaction, none for the request of an earlier one.
C36_OwnResponse ==
    (wire.pc # "read" /\ wire.ret = "Ok") =>
        \A i \in DOMAIN wire.data : wire.data[i] = wire.txn

\* The order of the locks: task_ports, ports, port, event_senders.
LockRank(l) ==
    CASE l = "task_ports" -> 1 [] l = "ports" -> 2 [] l = "port" -> 3
      [] l = "event_senders" -> 4

\* Task t is at a lock().await.
AtLock(t) == lk.todo[t] # <<>> /\ Head(lk.todo[t]).op = "acq"

\* Task t is at a lock().await on a lock another task holds.
Waits(t) == AtLock(t) /\ lk.held[Head(lk.todo[t]).l] # Free

\* The task that holds the lock t waits for.
WaitsOn(t) == lk.held[Head(lk.todo[t]).l]

\* C37: a task that goes for a lock holds only locks that come before it
\* in the order task_ports, ports, port, event_senders, and never
\* event_senders; no set of tasks is ever such that each of them waits for
\* a lock held by one of them; and whenever a task waits, some task holds
\* a lock and waits for none.
C37_DeadlockFree ==
    /\ \A t \in LockTasks :
         AtLock(t) =>
            \A h \in HeldBy(t) :
                /\ h # "event_senders"
                /\ LockRank(h) < LockRank(Head(lk.todo[t]).l)
    /\ \A S \in SUBSET LockTasks \ {{}} :
         ~(\A t \in S : Waits(t) /\ WaitsOn(t) \in S)
    /\ (\E t \in LockTasks : Waits(t)) =>
         \E h \in LockTasks : HeldBy(h) # {} /\ ~Waits(h)

\* The longest chain of waits: a caller is at task_ports, which the
\* monitoring task holds; the monitoring task is at the map, which the
\* other caller holds; that caller is at the port, which the receive task
\* holds.
C37_Witness ==
    \E u, v \in Callers :
        /\ Waits(u) /\ WaitsOn(u) = Monitor
        /\ Waits(Monitor) /\ WaitsOn(Monitor) = v
        /\ Waits(v) /\ WaitsOn(v) = RxTask
        /\ lk.held["task_ports"] = Monitor
        /\ lk.held["ports"] = v
        /\ lk.held["port"] = RxTask

\* The Vec t is the Vec s with entries pushed at its end.
Pushed(s, t) == Len(s) <= Len(t) /\ SubSeq(t, 1, Len(s)) = s

\* C38: no step takes a port out of the watched ports (every step leaves
\* the Vec as it is or pushes at its end); and a cycle for which a port is
\* watched, listed by the OS and not registered registers it in its loop
\* 3.3, unless a caller's add came first: the step of 3.3 for the port ends
\* with the port in the map, and no such cycle gets past 3.3 without that
\* step.
C38_WatchedGrows ==
    /\ [][Pushed(task_ports, task_ports')]_vars
    /\ [][\A p \in PortIds : ReaddStep(p) => p \in DOMAIN ports']_vars
    /\ [](\A p \in PortIds :
            (Lost(p) /\ mon.pc = "readd") =>
                (p \in mon.todo \/ cyc.ev["Reconnected"][p] + cyc.ev["Failed"][p] = 1))
    /\ [](\A p \in PortIds :
            (Lost(p) /\ PastReadd) =>
                cyc.ev["Reconnected"][p] + cyc.ev["Failed"][p] = 1)

\* The caller's last call was remove_port on a watched port the OS lists,
\* and it returned the Channel; the cycle that followed found the port
\* unregistered and has registered it again: it is in the map as a
\* probe-only Channel, and still watched.
C38_Witness ==
    \E p \in PortIds :
        /\ call[User].pc = "idle"
        /\ call[User].op = "remove_port"
        /\ call[User].arg = p
        /\ call[User].ret = "Some"
        /\ Lost(p) /\ PastReadd
        /\ cyc.ev["Reconnected"][p] = 1
        /\ p \in DOMAIN ports /\ ~ports[p].auto_receive
        /\ p \in Elems(task_ports)
        /\ p \in avail

\* The events subscriber s has been sent and still knows of: the received
\* ones, then the ones waiting in its channel.
Seen(s) == got[s] \o inbox[s]

\* C39: any two events that two subscribers were both sent stand in the
\* same order with both, whichever task emitted them and whichever emitter
\* called emit_event first; and at most one emitter is among the senders
\* at a time.
C39_CommonOrder ==
    /\ \A s, t \in Subs :
         \A i, j \in DOMAIN Seen(s) :
            \A k, l \in DOMAIN Seen(t) :
                (i < j /\ Seen(s)[i] = Seen(t)[k] /\ Seen(s)[j] = Seen(t)[l])
                    => k < l
    /\ \A e, f \in Emitters :
         (em.at[e].pc = "send" /\ em.at[f].pc = "send") => e = f

\* Two subscribers have both been sent two events of different emitters,
\* the one made second first, and a third emission is on its way through
\* the senders: it has reached the first subscriber, not yet the second.
C39_Witness ==
    /\ alive[1] /\ alive[2]
    /\ Seen(1) = <<2, 1, 3>>
    /\ Seen(2) = <<2, 1>>
    /\ Len(em.by) = 3
    /\ em.by[1] # em.by[2]
    /\ \E e \in Emitters : em.at[e].pc = "send" /\ em.at[e].left = <<2>>

\* PortConnectionFailed is emitted for port p in this step.
FailedEmitted(p) == cyc'.ev["Failed"][p] > cyc.ev["Failed"][p]

\* The joins of an open_all (the monitoring task's or a caller's) in which
\* an open() failed: a closed Channel of the map is closed afterwards.
OpenFails ==
    /\ \/ mon.pc = "oa_join" /\ mon'.pc = "done"
       \/ \E u \in Callers : call[u].pc = "oa_join" /\ call'[u].pc = "idle"
    /\ \E q \in OpenTargets : q \in DOMAIN ports' /\ ~ports'[q].connected

\* C40: PortConnectionFailed is emitted for a port only by the step of 3.3
\* for that port, in a cycle whose key snapshot did not hold the port, when
\* the map holds it by then as a Channel a caller's add_port made (the
\* cycle itself registers probe-only Channels), and the map is left as it
\* is; a cycle that has emitted it for a port did not have the port in its
\* snapshot; and no join of an open_all emits it, whatever open() failed.
C40_FailedOnlyWhenOvertaken ==
    /\ [][\A p \in PortIds :
            FailedEmitted(p) =>
                /\ ReaddStep(p)
                /\ p \notin mon.ports_list
                /\ p \in DOMAIN ports
                /\ ports[p].auto_receive
                /\ ports' = ports]_vars
    /\ [](\A p \in PortIds :
            cyc.ev["Failed"][p] >= 1 =>
                p \notin mon.ports_list /\ p \in mon.available)
    /\ [][OpenFails => cyc'.ev["Failed"] = cyc.ev["Failed"]]_vars

\* A cycle is over in which PortConnectionFailed was emitted for a port the
\* caller registered after the key snapshot, and whose open_all left a
\* Channel of a listed port closed: no PortConnectionFailed for that one.
C40_Witness ==
    /\ mon.pc = "done"
    /\ cyc.opens = 1
    /\ \E p, q \in PortIds :
         /\ p # q
         /\ cyc.ev["Failed"][q] = 1
         /\ q \notin mon.ports_list
         /\ q \in DOMAIN ports /\ ports[q].auto_receive
         /\ cyc.ev["Reconnected"][p] = 1
         /\ cyc.ev["Failed"][p] = 0
         /\ p \in DOMAIN ports /\ ~ports[p].connected
         /\ p \in avail

====
